---- MODULE Spec2Model ----
(***************************************************************************)
(* gocloc: per-language lexical state machines that classify the lines of  *)
(* a source file into total/code/comment/blank, and the concurrent scanner *)
(* that walks a path, runs the classifiers in a worker pool and aggregates *)
(* the results.                                                            *)
(*                                                                         *)
(* Runes are one-character strings; a line is a sequence of runes.         *)
(***************************************************************************)
EXTENDS Integers, Sequences, FiniteSets, TLC

\* ------------------------------------------------------------------------
\* Bounds of the model
\* ------------------------------------------------------------------------

\* longest line text (in runes) that is enumerated exhaustively
MaxLineLen == 2

\* largest number of physical lines a stream delivers
MaxLines == 3

\* ------------------------------------------------------------------------
\* Runes and strings
\* ------------------------------------------------------------------------

\* rune(0): the value of next/nextTwo when there is no such rune
NUL == "NUL"

\* the backquote rune U+0060 (a TLA+ string cannot contain it)
BACKTICK == "BQ"

\* the no-break space U+00A0: a whitespace rune that UTF-8 encodes in the
\* two bytes 0xC2 0xA0
NBSP == "NBSP"

\* unicode.IsSpace restricted to the runes of the model
IsSpace(c) == c \in {" ", "\t", "\r", "\n", NBSP}

\* rune(s[i]) where byte i of the string s is the first byte of the rune c:
\* the rune itself for ASCII, U+00C2 for the no-break space
LeadByte(c) == IF c = NBSP THEN "0xC2" ELSE c

BoundedSeq(S, n) == UNION {[1..k -> S] : k \in 0..n}

\* strings.TrimSuffix(s, suffix) for a one-rune suffix
TrimSuffix(s, c) ==
    IF Len(s) > 0 /\ s[Len(s)] = c THEN SubSeq(s, 1, Len(s) - 1) ELSE s

RECURSIVE TrimLeft(_)
TrimLeft(s) ==
    IF Len(s) > 0 /\ IsSpace(s[1]) THEN TrimLeft(Tail(s)) ELSE s

RECURSIVE TrimRight(_)
TrimRight(s) ==
    IF Len(s) > 0 /\ IsSpace(s[Len(s)]) THEN TrimRight(SubSeq(s, 1, Len(s) - 1)) ELSE s

\* strings.TrimSpace
TrimSpace(s) == TrimRight(TrimLeft(s))

\* strings.HasPrefix
HasPrefix(s, p) == Len(s) >= Len(p) /\ SubSeq(s, 1, Len(p)) = p

\* ------------------------------------------------------------------------
\* internal/languages/common.go
\* ------------------------------------------------------------------------

\* a normalisation that removes the "\n" only
normalizeLine_KeepsCR(line) == TrimSuffix(line, "\n")

normalizeLine(line) == TrimSuffix(TrimSuffix(line, "\n"), "\r")

ZeroMetrics == [Total |-> 0, Code |-> 0, Comment |-> 0, Blank |-> 0]

\* applyLineClassification counting total only for lines that are not blank
applyLineClassification_TotalAfterBlank(m, line, hasCode, hasComment) ==
    IF TrimSpace(line) = <<>> /\ ~hasCode /\ ~hasComment
    THEN [m EXCEPT !.Blank = @ + 1]
    ELSE LET m1 == [m EXCEPT !.Total = @ + 1]
             m2 == IF hasCode THEN [m1 EXCEPT !.Code = @ + 1] ELSE m1
             m3 == IF hasComment THEN [m2 EXCEPT !.Comment = @ + 1] ELSE m2
         IN IF ~hasCode /\ ~hasComment THEN [m3 EXCEPT !.Blank = @ + 1] ELSE m3

\* applyLineClassification without the return after the first blank++
applyLineClassification_NoReturn(m, line, hasCode, hasComment) ==
    LET m1 == [m EXCEPT !.Total = @ + 1]
        m0 == IF TrimSpace(line) = <<>> /\ ~hasCode /\ ~hasComment
              THEN [m1 EXCEPT !.Blank = @ + 1] ELSE m1
        m2 == IF hasCode THEN [m0 EXCEPT !.Code = @ + 1] ELSE m0
        m3 == IF hasComment THEN [m2 EXCEPT !.Comment = @ + 1] ELSE m2
    IN IF ~hasCode /\ ~hasComment THEN [m3 EXCEPT !.Blank = @ + 1] ELSE m3

\* a rule that takes every line of white space for blank
applyLineClassification_BlankByText(m, line, hasCode, hasComment) ==
    LET m1 == [m EXCEPT !.Total = @ + 1] IN
    IF TrimSpace(line) = <<>>
    THEN [m1 EXCEPT !.Blank = @ + 1]
    ELSE LET m2 == IF hasCode THEN [m1 EXCEPT !.Code = @ + 1] ELSE m1
         IN IF hasComment THEN [m2 EXCEPT !.Comment = @ + 1] ELSE m2

applyLineClassification(m, line, hasCode, hasComment) ==
    LET m1 == [m EXCEPT !.Total = @ + 1] IN
    IF TrimSpace(line) = <<>> /\ ~hasCode /\ ~hasComment
    THEN [m1 EXCEPT !.Blank = @ + 1]
    ELSE LET m2 == IF hasCode THEN [m1 EXCEPT !.Code = @ + 1] ELSE m1
             m3 == IF hasComment THEN [m2 EXCEPT !.Comment = @ + 1] ELSE m2
         IN IF ~hasCode /\ ~hasComment THEN [m3 EXCEPT !.Blank = @ + 1] ELSE m3

\* ------------------------------------------------------------------------
\* The scanning loop of processLine
\* ------------------------------------------------------------------------

\* the locals of the loop of processLine: the cursor, the engine and the
\* two flags; returned is set by a return statement inside the loop
Cfg(idx, e, hasCode, hasComment) ==
    [idx |-> idx, eng |-> e, hasCode |-> hasCode, hasComment |-> hasComment,
     returned |-> FALSE]

\* a return statement that reports no code for the line
Ret_NoCode(idx, e, hasCode, hasComment) ==
    [idx |-> idx, eng |-> e, hasCode |-> FALSE, hasComment |-> hasComment,
     returned |-> TRUE]

Ret(idx, e, hasCode, hasComment) ==
    [idx |-> idx, eng |-> e, hasCode |-> hasCode, hasComment |-> hasComment,
     returned |-> TRUE]

hasNext(runes, idx) == idx + 1 <= Len(runes)

hasNextTwo(runes, idx) == idx + 2 <= Len(runes)

next(runes, idx) == IF hasNext(runes, idx) THEN runes[idx + 1] ELSE NUL

nextTwo(runes, idx) == IF hasNextTwo(runes, idx) THEN runes[idx + 2] ELSE NUL


\* ------------------------------------------------------------------------
\* Go engine
\* ------------------------------------------------------------------------

goFSMEngine ==
    [inBlockComment |-> FALSE, inDoubleQuotedStr |-> FALSE, inSingleQuotedRune |-> FALSE, inRawStringLiteral |-> FALSE]

goInBlockComment(runes, idx, e, hasCode, hasComment) ==
    IF runes[idx] = "*" /\ hasNext(runes, idx) /\ next(runes, idx) = "/"
    THEN Cfg(idx + 2, [e EXCEPT !.inBlockComment = FALSE], hasCode, TRUE)
    ELSE Cfg(idx + 1, e, hasCode, TRUE)

\* a raw string in which a backslash escapes the rune behind it
goInRawStringLiteral_Escapes(runes, idx, e, hasCode, hasComment) ==
    IF runes[idx] = "\\" /\ hasNext(runes, idx)
    THEN Cfg(idx + 2, e, TRUE, hasComment)
    ELSE IF runes[idx] = BACKTICK
    THEN Cfg(idx + 1, [e EXCEPT !.inRawStringLiteral = FALSE], TRUE, hasComment)
    ELSE Cfg(idx + 1, e, TRUE, hasComment)

\* a raw string inside which a double quote opens a string
goInRawStringLiteral_OpensString(runes, idx, e, hasCode, hasComment) ==
    IF runes[idx] = BACKTICK
    THEN Cfg(idx + 1, [e EXCEPT !.inRawStringLiteral = FALSE], TRUE, hasComment)
    ELSE IF runes[idx] = "\""
    THEN Cfg(idx + 1, [e EXCEPT !.inDoubleQuotedStr = TRUE], TRUE, hasComment)
    ELSE Cfg(idx + 1, e, TRUE, hasComment)

goInRawStringLiteral(runes, idx, e, hasCode, hasComment) ==
    IF runes[idx] = BACKTICK
    THEN Cfg(idx + 1, [e EXCEPT !.inRawStringLiteral = FALSE], TRUE, hasComment)
    ELSE Cfg(idx + 1, e, TRUE, hasComment)

\* a string state that knows no escapes
goInDoubleQuotedStr_NoEscapes(runes, idx, e, hasCode, hasComment) ==
    IF runes[idx] = "\""
    THEN Cfg(idx + 1, [e EXCEPT !.inDoubleQuotedStr = FALSE], TRUE, hasComment)
    ELSE Cfg(idx + 1, e, TRUE, hasComment)

goInDoubleQuotedStr(runes, idx, e, hasCode, hasComment) ==
    IF runes[idx] = "\\" /\ hasNext(runes, idx)
    THEN Cfg(idx + 2, e, TRUE, hasComment)
    ELSE IF runes[idx] = "\""
    THEN Cfg(idx + 1, [e EXCEPT !.inDoubleQuotedStr = FALSE], TRUE, hasComment)
    ELSE Cfg(idx + 1, e, TRUE, hasComment)

goInSingleQuotedRune(runes, idx, e, hasCode, hasComment) ==
    IF runes[idx] = "\\" /\ hasNext(runes, idx)
    THEN Cfg(idx + 2, e, TRUE, hasComment)
    ELSE IF runes[idx] = "'"
    THEN Cfg(idx + 1, [e EXCEPT !.inSingleQuotedRune = FALSE], TRUE, hasComment)
    ELSE Cfg(idx + 1, e, TRUE, hasComment)

goInCode(runes, idx, e, hasCode, hasComment) ==
    IF IsSpace(runes[idx]) THEN
        Cfg(idx + 1, e, hasCode, hasComment)
    ELSE IF runes[idx] = "/" /\ hasNext(runes, idx) /\ next(runes, idx) = "/" THEN
        Ret(idx, e, hasCode, TRUE)
    ELSE IF runes[idx] = "/" /\ hasNext(runes, idx) /\ next(runes, idx) = "*" THEN
        Cfg(idx + 2, [e EXCEPT !.inBlockComment = TRUE], hasCode, TRUE)
    ELSE IF runes[idx] = "\"" THEN
        Cfg(idx + 1, [e EXCEPT !.inDoubleQuotedStr = TRUE], TRUE, hasComment)
    ELSE IF runes[idx] = "'" THEN
        Cfg(idx + 1, [e EXCEPT !.inSingleQuotedRune = TRUE], TRUE, hasComment)
    ELSE IF runes[idx] = BACKTICK THEN
        Cfg(idx + 1, [e EXCEPT !.inRawStringLiteral = TRUE], TRUE, hasComment)
    ELSE Cfg(idx + 1, e, TRUE, hasComment)

\* one iteration of the loop of goFSMEngine.processLine
goStep(runes, idx, e, hasCode, hasComment) ==
    IF e.inBlockComment THEN goInBlockComment(runes, idx, e, hasCode, hasComment)
    ELSE IF e.inRawStringLiteral THEN goInRawStringLiteral(runes, idx, e, hasCode, hasComment)
    ELSE IF e.inDoubleQuotedStr THEN goInDoubleQuotedStr(runes, idx, e, hasCode, hasComment)
    ELSE IF e.inSingleQuotedRune THEN goInSingleQuotedRune(runes, idx, e, hasCode, hasComment)
    ELSE goInCode(runes, idx, e, hasCode, hasComment)

RECURSIVE goScan(_, _)
goScan(runes, c) ==
    IF c.returned \/ c.idx > Len(runes) THEN c
    ELSE goScan(runes, goStep(runes, c.idx, c.eng, c.hasCode, c.hasComment))

goProcessLine(e, line) ==
    goScan(line, Cfg(1, e,
        e.inDoubleQuotedStr \/ e.inSingleQuotedRune \/ e.inRawStringLiteral,
        e.inBlockComment))

\* ------------------------------------------------------------------------
\* JavaScript engine
\* ------------------------------------------------------------------------

javaScriptFSMEngine ==
    [inBlockComment |-> FALSE, inSingleQuotedStr |-> FALSE, inDoubleQuotedStr |-> FALSE, inTemplateLiteral |-> FALSE]

javaScriptInBlockComment(runes, idx, e, hasCode, hasComment) ==
    IF runes[idx] = "*" /\ hasNext(runes, idx) /\ next(runes, idx) = "/"
    THEN Cfg(idx + 2, [e EXCEPT !.inBlockComment = FALSE], hasCode, TRUE)
    ELSE Cfg(idx + 1, e, hasCode, TRUE)

javaScriptInSingleQuotedStr(runes, idx, e, hasCode, hasComment) ==
    IF runes[idx] = "\\" /\ hasNext(runes, idx)
    THEN Cfg(idx + 2, e, TRUE, hasComment)
    ELSE IF runes[idx] = "'"
    THEN Cfg(idx + 1, [e EXCEPT !.inSingleQuotedStr = FALSE], TRUE, hasComment)
    ELSE Cfg(idx + 1, e, TRUE, hasComment)

javaScriptInDoubleQuotedStr(runes, idx, e, hasCode, hasComment) ==
    IF runes[idx] = "\\" /\ hasNext(runes, idx)
    THEN Cfg(idx + 2, e, TRUE, hasComment)
    ELSE IF runes[idx] = "\""
    THEN Cfg(idx + 1, [e EXCEPT !.inDoubleQuotedStr = FALSE], TRUE, hasComment)
    ELSE Cfg(idx + 1, e, TRUE, hasComment)

\* a template literal that every backtick closes, escaped or not
javaScriptInTemplateLiteral_NoEscapes(runes, idx, e, hasCode, hasComment) ==
    IF runes[idx] = BACKTICK
    THEN Cfg(idx + 1, [e EXCEPT !.inTemplateLiteral = FALSE], TRUE, hasComment)
    ELSE Cfg(idx + 1, e, TRUE, hasComment)

javaScriptInTemplateLiteral(runes, idx, e, hasCode, hasComment) ==
    IF runes[idx] = "\\" /\ hasNext(runes, idx)
    THEN Cfg(idx + 2, e, TRUE, hasComment)
    ELSE IF runes[idx] = BACKTICK
    THEN Cfg(idx + 1, [e EXCEPT !.inTemplateLiteral = FALSE], TRUE, hasComment)
    ELSE Cfg(idx + 1, e, TRUE, hasComment)

javaScriptInCode(runes, idx, e, hasCode, hasComment) ==
    IF IsSpace(runes[idx]) THEN
        Cfg(idx + 1, e, hasCode, hasComment)
    ELSE IF runes[idx] = "/" /\ hasNext(runes, idx) /\ next(runes, idx) = "/" THEN
        Ret(idx, e, hasCode, TRUE)
    ELSE IF runes[idx] = "/" /\ hasNext(runes, idx) /\ next(runes, idx) = "*" THEN
        Cfg(idx + 2, [e EXCEPT !.inBlockComment = TRUE], hasCode, TRUE)
    ELSE IF runes[idx] = "'" THEN
        Cfg(idx + 1, [e EXCEPT !.inSingleQuotedStr = TRUE], TRUE, hasComment)
    ELSE IF runes[idx] = "\"" THEN
        Cfg(idx + 1, [e EXCEPT !.inDoubleQuotedStr = TRUE], TRUE, hasComment)
    ELSE IF runes[idx] = BACKTICK THEN
        Cfg(idx + 1, [e EXCEPT !.inTemplateLiteral = TRUE], TRUE, hasComment)
    ELSE Cfg(idx + 1, e, TRUE, hasComment)

\* one iteration of the loop of javaScriptFSMEngine.processLine
javaScriptStep(runes, idx, e, hasCode, hasComment) ==
    IF e.inBlockComment THEN javaScriptInBlockComment(runes, idx, e, hasCode, hasComment)
    ELSE IF e.inSingleQuotedStr THEN javaScriptInSingleQuotedStr(runes, idx, e, hasCode, hasComment)
    ELSE IF e.inDoubleQuotedStr THEN javaScriptInDoubleQuotedStr(runes, idx, e, hasCode, hasComment)
    ELSE IF e.inTemplateLiteral THEN javaScriptInTemplateLiteral(runes, idx, e, hasCode, hasComment)
    ELSE javaScriptInCode(runes, idx, e, hasCode, hasComment)

RECURSIVE javaScriptScan(_, _)
javaScriptScan(runes, c) ==
    IF c.returned \/ c.idx > Len(runes) THEN c
    ELSE javaScriptScan(runes, javaScriptStep(runes, c.idx, c.eng, c.hasCode, c.hasComment))

javaScriptProcessLine(e, line) ==
    javaScriptScan(line, Cfg(1, e,
        e.inSingleQuotedStr \/ e.inDoubleQuotedStr \/ e.inTemplateLiteral,
        e.inBlockComment))

\* ------------------------------------------------------------------------
\* TypeScript engine
\* ------------------------------------------------------------------------

typeScriptFSMEngine ==
    [inBlockComment |-> FALSE, inSingleQuotedStr |-> FALSE, inDoubleQuotedStr |-> FALSE, inTemplateLiteral |-> FALSE]

typeScriptInBlockComment(runes, idx, e, hasCode, hasComment) ==
    IF runes[idx] = "*" /\ hasNext(runes, idx) /\ next(runes, idx) = "/"
    THEN Cfg(idx + 2, [e EXCEPT !.inBlockComment = FALSE], hasCode, TRUE)
    ELSE Cfg(idx + 1, e, hasCode, TRUE)

typeScriptInSingleQuotedStr(runes, idx, e, hasCode, hasComment) ==
    IF runes[idx] = "\\" /\ hasNext(runes, idx)
    THEN Cfg(idx + 2, e, TRUE, hasComment)
    ELSE IF runes[idx] = "'"
    THEN Cfg(idx + 1, [e EXCEPT !.inSingleQuotedStr = FALSE], TRUE, hasComment)
    ELSE Cfg(idx + 1, e, TRUE, hasComment)

typeScriptInDoubleQuotedStr(runes, idx, e, hasCode, hasComment) ==
    IF runes[idx] = "\\" /\ hasNext(runes, idx)
    THEN Cfg(idx + 2, e, TRUE, hasComment)
    ELSE IF runes[idx] = "\""
    THEN Cfg(idx + 1, [e EXCEPT !.inDoubleQuotedStr = FALSE], TRUE, hasComment)
    ELSE Cfg(idx + 1, e, TRUE, hasComment)

\* a TypeScript template literal in which the backslash escapes nothing
typeScriptInTemplateLiteral_PlainBackslash(runes, idx, e, hasCode, hasComment) ==
    IF runes[idx] = BACKTICK
    THEN Cfg(idx + 1, [e EXCEPT !.inTemplateLiteral = FALSE], TRUE, hasComment)
    ELSE Cfg(idx + 1, e, TRUE, hasComment)

typeScriptInTemplateLiteral(runes, idx, e, hasCode, hasComment) ==
    IF runes[idx] = "\\" /\ hasNext(runes, idx)
    THEN Cfg(idx + 2, e, TRUE, hasComment)
    ELSE IF runes[idx] = BACKTICK
    THEN Cfg(idx + 1, [e EXCEPT !.inTemplateLiteral = FALSE], TRUE, hasComment)
    ELSE Cfg(idx + 1, e, TRUE, hasComment)

typeScriptInCode(runes, idx, e, hasCode, hasComment) ==
    IF IsSpace(runes[idx]) THEN
        Cfg(idx + 1, e, hasCode, hasComment)
    ELSE IF runes[idx] = "/" /\ hasNext(runes, idx) /\ next(runes, idx) = "/" THEN
        Ret(idx, e, hasCode, TRUE)
    ELSE IF runes[idx] = "/" /\ hasNext(runes, idx) /\ next(runes, idx) = "*" THEN
        Cfg(idx + 2, [e EXCEPT !.inBlockComment = TRUE], hasCode, TRUE)
    ELSE IF runes[idx] = "'" THEN
        Cfg(idx + 1, [e EXCEPT !.inSingleQuotedStr = TRUE], TRUE, hasComment)
    ELSE IF runes[idx] = "\"" THEN
        Cfg(idx + 1, [e EXCEPT !.inDoubleQuotedStr = TRUE], TRUE, hasComment)
    ELSE IF runes[idx] = BACKTICK THEN
        Cfg(idx + 1, [e EXCEPT !.inTemplateLiteral = TRUE], TRUE, hasComment)
    ELSE Cfg(idx + 1, e, TRUE, hasComment)

\* one iteration of the loop of typeScriptFSMEngine.processLine
typeScriptStep(runes, idx, e, hasCode, hasComment) ==
    IF e.inBlockComment THEN typeScriptInBlockComment(runes, idx, e, hasCode, hasComment)
    ELSE IF e.inSingleQuotedStr THEN typeScriptInSingleQuotedStr(runes, idx, e, hasCode, hasComment)
    ELSE IF e.inDoubleQuotedStr THEN typeScriptInDoubleQuotedStr(runes, idx, e, hasCode, hasComment)
    ELSE IF e.inTemplateLiteral THEN typeScriptInTemplateLiteral(runes, idx, e, hasCode, hasComment)
    ELSE typeScriptInCode(runes, idx, e, hasCode, hasComment)

RECURSIVE typeScriptScan(_, _)
typeScriptScan(runes, c) ==
    IF c.returned \/ c.idx > Len(runes) THEN c
    ELSE typeScriptScan(runes, typeScriptStep(runes, c.idx, c.eng, c.hasCode, c.hasComment))

typeScriptProcessLine(e, line) ==
    typeScriptScan(line, Cfg(1, e,
        e.inSingleQuotedStr \/ e.inDoubleQuotedStr \/ e.inTemplateLiteral,
        e.inBlockComment))

\* ------------------------------------------------------------------------
\* Python engine
\* ------------------------------------------------------------------------

pythonFSMEngine ==
    [inSingleQuotedStr |-> FALSE, inDoubleQuotedStr |-> FALSE, inTripleSingleStr |-> FALSE, inTripleDoubleStr |-> FALSE]

pythonInTripleSingleStr(runes, idx, e, hasCode, hasComment) ==
    IF runes[idx] = "'" /\ hasNext(runes, idx) /\ hasNextTwo(runes, idx)
       /\ next(runes, idx) = "'" /\ nextTwo(runes, idx) = "'"
    THEN Cfg(idx + 3, [e EXCEPT !.inTripleSingleStr = FALSE], TRUE, hasComment)
    ELSE Cfg(idx + 1, e, TRUE, hasComment)

\* a triple-quoted string in which a backslash escapes the rune after it
pythonInTripleDoubleStr_EscapeAware(runes, idx, e, hasCode, hasComment) ==
    IF runes[idx] = "\\" /\ hasNext(runes, idx)
    THEN Cfg(idx + 2, e, TRUE, hasComment)
    ELSE IF runes[idx] = "\"" /\ hasNext(runes, idx) /\ hasNextTwo(runes, idx)
            /\ next(runes, idx) = "\"" /\ nextTwo(runes, idx) = "\""
    THEN Cfg(idx + 3, [e EXCEPT !.inTripleDoubleStr = FALSE], TRUE, hasComment)
    ELSE Cfg(idx + 1, e, TRUE, hasComment)

pythonInTripleDoubleStr(runes, idx, e, hasCode, hasComment) ==
    IF runes[idx] = "\"" /\ hasNext(runes, idx) /\ hasNextTwo(runes, idx)
       /\ next(runes, idx) = "\"" /\ nextTwo(runes, idx) = "\""
    THEN Cfg(idx + 3, [e EXCEPT !.inTripleDoubleStr = FALSE], TRUE, hasComment)
    ELSE Cfg(idx + 1, e, TRUE, hasComment)

pythonInSingleQuotedStr(runes, idx, e, hasCode, hasComment) ==
    IF runes[idx] = "\\" /\ hasNext(runes, idx)
    THEN Cfg(idx + 2, e, TRUE, hasComment)
    ELSE IF runes[idx] = "'"
    THEN Cfg(idx + 1, [e EXCEPT !.inSingleQuotedStr = FALSE], TRUE, hasComment)
    ELSE Cfg(idx + 1, e, TRUE, hasComment)

pythonInDoubleQuotedStr(runes, idx, e, hasCode, hasComment) ==
    IF runes[idx] = "\\" /\ hasNext(runes, idx)
    THEN Cfg(idx + 2, e, TRUE, hasComment)
    ELSE IF runes[idx] = "\""
    THEN Cfg(idx + 1, [e EXCEPT !.inDoubleQuotedStr = FALSE], TRUE, hasComment)
    ELSE Cfg(idx + 1, e, TRUE, hasComment)

\* an engine that goes on scanning after the #
pythonInCode_ScansOn(runes, idx, e, hasCode, hasComment) ==
    IF IsSpace(runes[idx]) THEN
        Cfg(idx + 1, e, hasCode, hasComment)
    ELSE IF runes[idx] = "#" THEN
        Cfg(idx + 1, e, hasCode, TRUE)
    ELSE IF runes[idx] = "'" THEN
        Cfg(idx + 1, [e EXCEPT !.inSingleQuotedStr = TRUE], TRUE, hasComment)
    ELSE IF runes[idx] = "\"" THEN
        Cfg(idx + 1, [e EXCEPT !.inDoubleQuotedStr = TRUE], TRUE, hasComment)
    ELSE Cfg(idx + 1, e, TRUE, hasComment)

pythonInCode(runes, idx, e, hasCode, hasComment) ==
    IF IsSpace(runes[idx]) THEN
        Cfg(idx + 1, e, hasCode, hasComment)
    ELSE IF runes[idx] = "#" THEN
        Ret(idx, e, hasCode, TRUE)
    ELSE IF runes[idx] = "'" THEN
        IF hasNext(runes, idx) /\ hasNextTwo(runes, idx)
           /\ next(runes, idx) = "'" /\ nextTwo(runes, idx) = "'"
        THEN Cfg(idx + 3, [e EXCEPT !.inTripleSingleStr = TRUE], TRUE, hasComment)
        ELSE Cfg(idx + 1, [e EXCEPT !.inSingleQuotedStr = TRUE], TRUE, hasComment)
    ELSE IF runes[idx] = "\"" THEN
        IF hasNext(runes, idx) /\ hasNextTwo(runes, idx)
           /\ next(runes, idx) = "\"" /\ nextTwo(runes, idx) = "\""
        THEN Cfg(idx + 3, [e EXCEPT !.inTripleDoubleStr = TRUE], TRUE, hasComment)
        ELSE Cfg(idx + 1, [e EXCEPT !.inDoubleQuotedStr = TRUE], TRUE, hasComment)
    ELSE Cfg(idx + 1, e, TRUE, hasComment)

\* one iteration of the loop of pythonFSMEngine.processLine
pythonStep(runes, idx, e, hasCode, hasComment) ==
    IF e.inTripleSingleStr THEN pythonInTripleSingleStr(runes, idx, e, hasCode, hasComment)
    ELSE IF e.inTripleDoubleStr THEN pythonInTripleDoubleStr(runes, idx, e, hasCode, hasComment)
    ELSE IF e.inSingleQuotedStr THEN pythonInSingleQuotedStr(runes, idx, e, hasCode, hasComment)
    ELSE IF e.inDoubleQuotedStr THEN pythonInDoubleQuotedStr(runes, idx, e, hasCode, hasComment)
    ELSE pythonInCode(runes, idx, e, hasCode, hasComment)

RECURSIVE pythonScan(_, _)
pythonScan(runes, c) ==
    IF c.returned \/ c.idx > Len(runes) THEN c
    ELSE pythonScan(runes, pythonStep(runes, c.idx, c.eng, c.hasCode, c.hasComment))

pythonProcessLine(e, line) ==
    pythonScan(line, Cfg(1, e,
        e.inSingleQuotedStr \/ e.inDoubleQuotedStr \/ e.inTripleSingleStr \/ e.inTripleDoubleStr,
        FALSE))

\* ------------------------------------------------------------------------
\* Rust engine
\* ------------------------------------------------------------------------

rustFSMEngine ==
    [blockCommentDepth |-> 0, inDoubleQuotedStr |-> FALSE, inSingleQuotedChr |-> FALSE, inRawString |-> FALSE, rawStringHashCnt |-> 0]

\* the loop of tryStartRawString that skips the hashes: the first index at
\* or after cursor that does not hold a hash
RECURSIVE skipHashes(_, _)
skipHashes(runes, cursor) ==
    IF cursor <= Len(runes) /\ runes[cursor] = "#"
    THEN skipHashes(runes, cursor + 1)
    ELSE cursor

\* consumed is the index after the opening quote; hashCount is the value
\* stored into rawStringHashCnt when the raw string starts
tryStartRawString(runes, idx) ==
    LET notStarted == [consumed |-> idx + 1, started |-> FALSE, hashCount |-> 0]
        isB == runes[idx] = "b"
    IN
    IF isB /\ (idx + 1 > Len(runes) \/ runes[idx + 1] # "r") THEN notStarted
    ELSE
    LET start == IF isB THEN idx + 1 ELSE idx IN
    IF runes[start] # "r" THEN notStarted
    ELSE
    LET cursor == skipHashes(runes, start + 1)
        hashCount == cursor - (start + 1)
    IN
    IF cursor > Len(runes) \/ runes[cursor] # "\"" THEN notStarted
    ELSE [consumed |-> cursor + 1, started |-> TRUE, hashCount |-> hashCount]

\* a terminator test that is content with any double quote
matchRawStringTerminator_AnyQuote(e, runes, idx) == TRUE

matchRawStringTerminator(e, runes, idx) ==
    \A i \in 0..(e.rawStringHashCnt - 1) :
        idx + 1 + i <= Len(runes) /\ runes[idx + 1 + i] = "#"

\* a test that takes every single quote for the start of a char literal
rustLooksLikeCharLiteral_EveryQuote(runes, idx) == TRUE

rustLooksLikeCharLiteral(runes, idx) ==
    IF idx + 2 > Len(runes) THEN FALSE
    ELSE IF runes[idx + 1] # "\\" /\ runes[idx + 2] = "'" THEN TRUE
    ELSE IF runes[idx + 1] = "\\" /\ idx + 3 <= Len(runes) /\ runes[idx + 3] = "'" THEN TRUE
    ELSE FALSE


\* a block comment that does not nest: an opener inside it is plain text
rustInBlockComment_NoNesting(runes, idx, e, hasCode, hasComment) ==
    IF runes[idx] = "*" /\ hasNext(runes, idx) /\ next(runes, idx) = "/"
    THEN Cfg(idx + 2, [e EXCEPT !.blockCommentDepth = 0], hasCode, TRUE)
    ELSE Cfg(idx + 1, e, hasCode, TRUE)

rustInBlockComment(runes, idx, e, hasCode, hasComment) ==
    IF runes[idx] = "/" /\ hasNext(runes, idx) /\ next(runes, idx) = "*"
    THEN Cfg(idx + 2, [e EXCEPT !.blockCommentDepth = @ + 1], hasCode, TRUE)
    ELSE IF runes[idx] = "*" /\ hasNext(runes, idx) /\ next(runes, idx) = "/"
    THEN Cfg(idx + 2, [e EXCEPT !.blockCommentDepth = @ - 1], hasCode, TRUE)
    ELSE Cfg(idx + 1, e, hasCode, TRUE)

rustInRawString(runes, idx, e, hasCode, hasComment) ==
    IF runes[idx] = "\"" /\ matchRawStringTerminator(e, runes, idx)
    THEN Cfg(idx + 1 + e.rawStringHashCnt, [e EXCEPT !.inRawString = FALSE], TRUE, hasComment)
    ELSE Cfg(idx + 1, e, TRUE, hasComment)

rustInDoubleQuotedStr(runes, idx, e, hasCode, hasComment) ==
    IF runes[idx] = "\\" /\ hasNext(runes, idx)
    THEN Cfg(idx + 2, e, TRUE, hasComment)
    ELSE IF runes[idx] = "\""
    THEN Cfg(idx + 1, [e EXCEPT !.inDoubleQuotedStr = FALSE], TRUE, hasComment)
    ELSE Cfg(idx + 1, e, TRUE, hasComment)

rustInSingleQuotedChr(runes, idx, e, hasCode, hasComment) ==
    IF runes[idx] = "\\" /\ hasNext(runes, idx)
    THEN Cfg(idx + 2, e, TRUE, hasComment)
    ELSE IF runes[idx] = "'"
    THEN Cfg(idx + 1, [e EXCEPT !.inSingleQuotedChr = FALSE], TRUE, hasComment)
    ELSE Cfg(idx + 1, e, TRUE, hasComment)

rustInCode(runes, idx, e, hasCode, hasComment) ==
    IF IsSpace(runes[idx]) THEN
        Cfg(idx + 1, e, hasCode, hasComment)
    ELSE IF runes[idx] = "/" /\ hasNext(runes, idx) /\ next(runes, idx) = "/" THEN
        Ret(idx, e, hasCode, TRUE)
    ELSE IF runes[idx] = "/" /\ hasNext(runes, idx) /\ next(runes, idx) = "*" THEN
        Cfg(idx + 2, [e EXCEPT !.blockCommentDepth = 1], hasCode, TRUE)
    ELSE IF tryStartRawString(runes, idx).started THEN
        Cfg(tryStartRawString(runes, idx).consumed,
            [e EXCEPT !.inRawString = TRUE,
                      !.rawStringHashCnt = tryStartRawString(runes, idx).hashCount],
            TRUE, hasComment)
    ELSE IF runes[idx] = "\"" THEN
        Cfg(idx + 1, [e EXCEPT !.inDoubleQuotedStr = TRUE], TRUE, hasComment)
    ELSE IF runes[idx] = "'" /\ rustLooksLikeCharLiteral(runes, idx) THEN
        Cfg(idx + 1, [e EXCEPT !.inSingleQuotedChr = TRUE], TRUE, hasComment)
    ELSE Cfg(idx + 1, e, TRUE, hasComment)

\* one iteration of the loop of rustFSMEngine.processLine
rustStep(runes, idx, e, hasCode, hasComment) ==
    IF e.blockCommentDepth > 0 THEN rustInBlockComment(runes, idx, e, hasCode, hasComment)
    ELSE IF e.inRawString THEN rustInRawString(runes, idx, e, hasCode, hasComment)
    ELSE IF e.inDoubleQuotedStr THEN rustInDoubleQuotedStr(runes, idx, e, hasCode, hasComment)
    ELSE IF e.inSingleQuotedChr THEN rustInSingleQuotedChr(runes, idx, e, hasCode, hasComment)
    ELSE rustInCode(runes, idx, e, hasCode, hasComment)

RECURSIVE rustScan(_, _)
rustScan(runes, c) ==
    IF c.returned \/ c.idx > Len(runes) THEN c
    ELSE rustScan(runes, rustStep(runes, c.idx, c.eng, c.hasCode, c.hasComment))

rustProcessLine(e, line) ==
    rustScan(line, Cfg(1, e,
        e.inDoubleQuotedStr \/ e.inSingleQuotedChr \/ e.inRawString,
        e.blockCommentDepth > 0))

\* ------------------------------------------------------------------------
\* Ruby engine
\* ------------------------------------------------------------------------

rubyFSMEngine ==
    [inBeginEndComment |-> FALSE, inSingleQuotedStr |-> FALSE, inDoubleQuotedStr |-> FALSE]

DirBegin == <<"=", "b", "e", "g", "i", "n">>

DirEnd == <<"=", "e", "n", "d">>

isRubyBeginEndDirective(line, directive) ==
    LET trimmed == TrimSpace(line) IN
    IF ~HasPrefix(trimmed, directive) THEN FALSE
    ELSE IF Len(trimmed) = Len(directive) THEN TRUE
    ELSE IsSpace(LeadByte(trimmed[Len(directive) + 1]))


rubyInSingleQuotedStr(runes, idx, e, hasCode, hasComment) ==
    IF runes[idx] = "\\" /\ hasNext(runes, idx)
    THEN Cfg(idx + 2, e, TRUE, hasComment)
    ELSE IF runes[idx] = "'"
    THEN Cfg(idx + 1, [e EXCEPT !.inSingleQuotedStr = FALSE], TRUE, hasComment)
    ELSE Cfg(idx + 1, e, TRUE, hasComment)

rubyInDoubleQuotedStr(runes, idx, e, hasCode, hasComment) ==
    IF runes[idx] = "\\" /\ hasNext(runes, idx)
    THEN Cfg(idx + 2, e, TRUE, hasComment)
    ELSE IF runes[idx] = "\""
    THEN Cfg(idx + 1, [e EXCEPT !.inDoubleQuotedStr = FALSE], TRUE, hasComment)
    ELSE Cfg(idx + 1, e, TRUE, hasComment)

rubyInCode(runes, idx, e, hasCode, hasComment) ==
    IF IsSpace(runes[idx]) THEN
        Cfg(idx + 1, e, hasCode, hasComment)
    ELSE IF runes[idx] = "#" THEN
        Ret(idx, e, hasCode, TRUE)
    ELSE IF runes[idx] = "'" THEN
        Cfg(idx + 1, [e EXCEPT !.inSingleQuotedStr = TRUE], TRUE, hasComment)
    ELSE IF runes[idx] = "\"" THEN
        Cfg(idx + 1, [e EXCEPT !.inDoubleQuotedStr = TRUE], TRUE, hasComment)
    ELSE Cfg(idx + 1, e, TRUE, hasComment)

\* one iteration of the loop of rubyFSMEngine.processLine
rubyStep(runes, idx, e, hasCode, hasComment) ==
    IF e.inSingleQuotedStr THEN rubyInSingleQuotedStr(runes, idx, e, hasCode, hasComment)
    ELSE IF e.inDoubleQuotedStr THEN rubyInDoubleQuotedStr(runes, idx, e, hasCode, hasComment)
    ELSE rubyInCode(runes, idx, e, hasCode, hasComment)

RECURSIVE rubyScan(_, _)
rubyScan(runes, c) ==
    IF c.returned \/ c.idx > Len(runes) THEN c
    ELSE rubyScan(runes, rubyStep(runes, c.idx, c.eng, c.hasCode, c.hasComment))

rubyProcessLine(e, line) ==
    IF e.inBeginEndComment THEN
        IF isRubyBeginEndDirective(line, DirEnd)
        THEN Ret(1, [e EXCEPT !.inBeginEndComment = FALSE], FALSE, TRUE)
        ELSE Ret(1, e, FALSE, TRUE)
    ELSE IF isRubyBeginEndDirective(line, DirBegin) THEN
        Ret(1, [e EXCEPT !.inBeginEndComment = TRUE], FALSE, TRUE)
    ELSE rubyScan(line, Cfg(1, e, e.inSingleQuotedStr \/ e.inDoubleQuotedStr, FALSE))

\* ------------------------------------------------------------------------
\* Java engine
\* ------------------------------------------------------------------------

javaFSMEngine ==
    [inBlockComment |-> FALSE, inDoubleQuoted |-> FALSE, inSingleQuoted |-> FALSE, inTextBlockStr |-> FALSE]

\* a comment state that counts the /* it meets and lets the */ end the
\* comment only when none was met on the line
javaInBlockComment_Nesting(runes, idx, e, hasCode, hasComment) ==
    IF runes[idx] = "*" /\ hasNext(runes, idx) /\ next(runes, idx) = "/"
       /\ ~\E j \in 1..(idx - 2) : runes[j] = "/" /\ runes[j + 1] = "*"
    THEN Cfg(idx + 2, [e EXCEPT !.inBlockComment = FALSE], hasCode, TRUE)
    ELSE Cfg(idx + 1, e, hasCode, TRUE)

javaInBlockComment(runes, idx, e, hasCode, hasComment) ==
    IF runes[idx] = "*" /\ hasNext(runes, idx) /\ next(runes, idx) = "/"
    THEN Cfg(idx + 2, [e EXCEPT !.inBlockComment = FALSE], hasCode, TRUE)
    ELSE Cfg(idx + 1, e, hasCode, TRUE)

\* a text block that any double quote closes
javaInTextBlockStr_AnyQuote(runes, idx, e, hasCode, hasComment) ==
    IF runes[idx] = "\""
    THEN Cfg(idx + 1, [e EXCEPT !.inTextBlockStr = FALSE], TRUE, hasComment)
    ELSE Cfg(idx + 1, e, TRUE, hasComment)

javaInTextBlockStr(runes, idx, e, hasCode, hasComment) ==
    IF runes[idx] = "\"" /\ hasNext(runes, idx) /\ hasNextTwo(runes, idx)
       /\ next(runes, idx) = "\"" /\ nextTwo(runes, idx) = "\""
    THEN Cfg(idx + 3, [e EXCEPT !.inTextBlockStr = FALSE], TRUE, hasComment)
    ELSE Cfg(idx + 1, e, TRUE, hasComment)

javaInDoubleQuoted(runes, idx, e, hasCode, hasComment) ==
    IF runes[idx] = "\\" /\ hasNext(runes, idx)
    THEN Cfg(idx + 2, e, TRUE, hasComment)
    ELSE IF runes[idx] = "\""
    THEN Cfg(idx + 1, [e EXCEPT !.inDoubleQuoted = FALSE], TRUE, hasComment)
    ELSE Cfg(idx + 1, e, TRUE, hasComment)

javaInSingleQuoted(runes, idx, e, hasCode, hasComment) ==
    IF runes[idx] = "\\" /\ hasNext(runes, idx)
    THEN Cfg(idx + 2, e, TRUE, hasComment)
    ELSE IF runes[idx] = "'"
    THEN Cfg(idx + 1, [e EXCEPT !.inSingleQuoted = FALSE], TRUE, hasComment)
    ELSE Cfg(idx + 1, e, TRUE, hasComment)

javaInCode(runes, idx, e, hasCode, hasComment) ==
    IF IsSpace(runes[idx]) THEN
        Cfg(idx + 1, e, hasCode, hasComment)
    ELSE IF runes[idx] = "/" /\ hasNext(runes, idx) /\ next(runes, idx) = "/" THEN
        Ret(idx, e, hasCode, TRUE)
    ELSE IF runes[idx] = "/" /\ hasNext(runes, idx) /\ next(runes, idx) = "*" THEN
        Cfg(idx + 2, [e EXCEPT !.inBlockComment = TRUE], hasCode, TRUE)
    ELSE IF runes[idx] = "\"" /\ hasNext(runes, idx) /\ hasNextTwo(runes, idx)
            /\ next(runes, idx) = "\"" /\ nextTwo(runes, idx) = "\"" THEN
        Cfg(idx + 3, [e EXCEPT !.inTextBlockStr = TRUE], TRUE, hasComment)
    ELSE IF runes[idx] = "\"" THEN
        Cfg(idx + 1, [e EXCEPT !.inDoubleQuoted = TRUE], TRUE, hasComment)
    ELSE IF runes[idx] = "'" THEN
        Cfg(idx + 1, [e EXCEPT !.inSingleQuoted = TRUE], TRUE, hasComment)
    ELSE Cfg(idx + 1, e, TRUE, hasComment)

\* one iteration of the loop of javaFSMEngine.processLine
javaStep(runes, idx, e, hasCode, hasComment) ==
    IF e.inBlockComment THEN javaInBlockComment(runes, idx, e, hasCode, hasComment)
    ELSE IF e.inTextBlockStr THEN javaInTextBlockStr(runes, idx, e, hasCode, hasComment)
    ELSE IF e.inDoubleQuoted THEN javaInDoubleQuoted(runes, idx, e, hasCode, hasComment)
    ELSE IF e.inSingleQuoted THEN javaInSingleQuoted(runes, idx, e, hasCode, hasComment)
    ELSE javaInCode(runes, idx, e, hasCode, hasComment)

RECURSIVE javaScan(_, _)
javaScan(runes, c) ==
    IF c.returned \/ c.idx > Len(runes) THEN c
    ELSE javaScan(runes, javaStep(runes, c.idx, c.eng, c.hasCode, c.hasComment))

javaProcessLine(e, line) ==
    javaScan(line, Cfg(1, e,
        e.inDoubleQuoted \/ e.inSingleQuoted \/ e.inTextBlockStr,
        e.inBlockComment))

\* ------------------------------------------------------------------------
\* C/C++ engine
\* ------------------------------------------------------------------------

cCppFSMEngine ==
    [inBlockComment |-> FALSE, inDoubleQuoted |-> FALSE, inSingleQuoted |-> FALSE]

cCppInBlockComment(runes, idx, e, hasCode, hasComment) ==
    IF runes[idx] = "*" /\ hasNext(runes, idx) /\ next(runes, idx) = "/"
    THEN Cfg(idx + 2, [e EXCEPT !.inBlockComment = FALSE], hasCode, TRUE)
    ELSE Cfg(idx + 1, e, hasCode, TRUE)

cCppInDoubleQuoted(runes, idx, e, hasCode, hasComment) ==
    IF runes[idx] = "\\" /\ hasNext(runes, idx)
    THEN Cfg(idx + 2, e, TRUE, hasComment)
    ELSE IF runes[idx] = "\""
    THEN Cfg(idx + 1, [e EXCEPT !.inDoubleQuoted = FALSE], TRUE, hasComment)
    ELSE Cfg(idx + 1, e, TRUE, hasComment)

cCppInSingleQuoted(runes, idx, e, hasCode, hasComment) ==
    IF runes[idx] = "\\" /\ hasNext(runes, idx)
    THEN Cfg(idx + 2, e, TRUE, hasComment)
    ELSE IF runes[idx] = "'"
    THEN Cfg(idx + 1, [e EXCEPT !.inSingleQuoted = FALSE], TRUE, hasComment)
    ELSE Cfg(idx + 1, e, TRUE, hasComment)

cCppInCode(runes, idx, e, hasCode, hasComment) ==
    IF IsSpace(runes[idx]) THEN
        Cfg(idx + 1, e, hasCode, hasComment)
    ELSE IF runes[idx] = "/" /\ hasNext(runes, idx) /\ next(runes, idx) = "/" THEN
        Ret(idx, e, hasCode, TRUE)
    ELSE IF runes[idx] = "/" /\ hasNext(runes, idx) /\ next(runes, idx) = "*" THEN
        Cfg(idx + 2, [e EXCEPT !.inBlockComment = TRUE], hasCode, TRUE)
    ELSE IF runes[idx] = "\"" THEN
        Cfg(idx + 1, [e EXCEPT !.inDoubleQuoted = TRUE], TRUE, hasComment)
    ELSE IF runes[idx] = "'" THEN
        Cfg(idx + 1, [e EXCEPT !.inSingleQuoted = TRUE], TRUE, hasComment)
    ELSE Cfg(idx + 1, e, TRUE, hasComment)

\* one iteration of the loop of cCppFSMEngine.processLine
cCppStep(runes, idx, e, hasCode, hasComment) ==
    IF e.inBlockComment THEN cCppInBlockComment(runes, idx, e, hasCode, hasComment)
    ELSE IF e.inDoubleQuoted THEN cCppInDoubleQuoted(runes, idx, e, hasCode, hasComment)
    ELSE IF e.inSingleQuoted THEN cCppInSingleQuoted(runes, idx, e, hasCode, hasComment)
    ELSE cCppInCode(runes, idx, e, hasCode, hasComment)

RECURSIVE cCppScan(_, _)
cCppScan(runes, c) ==
    IF c.returned \/ c.idx > Len(runes) THEN c
    ELSE cCppScan(runes, cCppStep(runes, c.idx, c.eng, c.hasCode, c.hasComment))

cCppProcessLine(e, line) ==
    cCppScan(line, Cfg(1, e,
        e.inDoubleQuoted \/ e.inSingleQuoted,
        e.inBlockComment))

\* ------------------------------------------------------------------------
\* SQL engine
\* ------------------------------------------------------------------------

sqlFSMEngine ==
    [blockCommentDepth |-> 0, inSingleQuotedStr |-> FALSE, inDoubleQuotedStr |-> FALSE]

sqlInBlockComment(runes, idx, e, hasCode, hasComment) ==
    IF runes[idx] = "/" /\ hasNext(runes, idx) /\ next(runes, idx) = "*"
    THEN Cfg(idx + 2, [e EXCEPT !.blockCommentDepth = @ + 1], hasCode, TRUE)
    ELSE IF runes[idx] = "*" /\ hasNext(runes, idx) /\ next(runes, idx) = "/"
    THEN Cfg(idx + 2, [e EXCEPT !.blockCommentDepth = @ - 1], hasCode, TRUE)
    ELSE Cfg(idx + 1, e, hasCode, TRUE)

\* a single-quoted string with backslash escapes and no doubled quotes
sqlInSingleQuotedStr_Backslash(runes, idx, e, hasCode, hasComment) ==
    IF runes[idx] = "\\" /\ hasNext(runes, idx)
    THEN Cfg(idx + 2, e, TRUE, hasComment)
    ELSE IF runes[idx] = "'"
    THEN Cfg(idx + 1, [e EXCEPT !.inSingleQuotedStr = FALSE], TRUE, hasComment)
    ELSE Cfg(idx + 1, e, TRUE, hasComment)

sqlInSingleQuotedStr(runes, idx, e, hasCode, hasComment) ==
    IF runes[idx] = "'"
    THEN IF hasNext(runes, idx) /\ next(runes, idx) = "'"
         THEN Cfg(idx + 2, e, TRUE, hasComment)
         ELSE Cfg(idx + 1, [e EXCEPT !.inSingleQuotedStr = FALSE], TRUE, hasComment)
    ELSE Cfg(idx + 1, e, TRUE, hasComment)

sqlInDoubleQuotedStr(runes, idx, e, hasCode, hasComment) ==
    IF runes[idx] = "\""
    THEN IF hasNext(runes, idx) /\ next(runes, idx) = "\""
         THEN Cfg(idx + 2, e, TRUE, hasComment)
         ELSE Cfg(idx + 1, [e EXCEPT !.inDoubleQuotedStr = FALSE], TRUE, hasComment)
    ELSE Cfg(idx + 1, e, TRUE, hasComment)

\* an engine that takes no note of a rune that starts no token
sqlInCode_PlainUnflagged(runes, idx, e, hasCode, hasComment) ==
    IF IsSpace(runes[idx]) THEN
        Cfg(idx + 1, e, hasCode, hasComment)
    ELSE IF runes[idx] = "-" /\ hasNext(runes, idx) /\ next(runes, idx) = "-" THEN
        Ret(idx, e, hasCode, TRUE)
    ELSE IF runes[idx] = "/" /\ hasNext(runes, idx) /\ next(runes, idx) = "*" THEN
        Cfg(idx + 2, [e EXCEPT !.blockCommentDepth = 1], hasCode, TRUE)
    ELSE IF runes[idx] = "'" THEN
        Cfg(idx + 1, [e EXCEPT !.inSingleQuotedStr = TRUE], TRUE, hasComment)
    ELSE IF runes[idx] = "\"" THEN
        Cfg(idx + 1, [e EXCEPT !.inDoubleQuotedStr = TRUE], TRUE, hasComment)
    ELSE Cfg(idx + 1, e, hasCode, hasComment)

sqlInCode(runes, idx, e, hasCode, hasComment) ==
    IF IsSpace(runes[idx]) THEN
        Cfg(idx + 1, e, hasCode, hasComment)
    ELSE IF runes[idx] = "-" /\ hasNext(runes, idx) /\ next(runes, idx) = "-" THEN
        Ret(idx, e, hasCode, TRUE)
    ELSE IF runes[idx] = "/" /\ hasNext(runes, idx) /\ next(runes, idx) = "*" THEN
        Cfg(idx + 2, [e EXCEPT !.blockCommentDepth = 1], hasCode, TRUE)
    ELSE IF runes[idx] = "'" THEN
        Cfg(idx + 1, [e EXCEPT !.inSingleQuotedStr = TRUE], TRUE, hasComment)
    ELSE IF runes[idx] = "\"" THEN
        Cfg(idx + 1, [e EXCEPT !.inDoubleQuotedStr = TRUE], TRUE, hasComment)
    ELSE Cfg(idx + 1, e, TRUE, hasComment)

\* one iteration of the loop of sqlFSMEngine.processLine
sqlStep(runes, idx, e, hasCode, hasComment) ==
    IF e.blockCommentDepth > 0 THEN sqlInBlockComment(runes, idx, e, hasCode, hasComment)
    ELSE IF e.inSingleQuotedStr THEN sqlInSingleQuotedStr(runes, idx, e, hasCode, hasComment)
    ELSE IF e.inDoubleQuotedStr THEN sqlInDoubleQuotedStr(runes, idx, e, hasCode, hasComment)
    ELSE sqlInCode(runes, idx, e, hasCode, hasComment)

RECURSIVE sqlScan(_, _)
sqlScan(runes, c) ==
    IF c.returned \/ c.idx > Len(runes) THEN c
    ELSE sqlScan(runes, sqlStep(runes, c.idx, c.eng, c.hasCode, c.hasComment))

sqlProcessLine(e, line) ==
    sqlScan(line, Cfg(1, e,
        e.inSingleQuotedStr \/ e.inDoubleQuotedStr,
        e.blockCommentDepth > 0))

\* ------------------------------------------------------------------------
\* The nine analyzers (Name() of each) and their dispatch
\* ------------------------------------------------------------------------

Languages ==
    {"Go", "JavaScript", "TypeScript", "Python", "Rust", "Ruby", "Java", "C/C++", "SQL"}

\* Analyze: engine := a fresh engine of the language
newEngine(l) ==
    CASE l = "Go" -> goFSMEngine
      [] l = "JavaScript" -> javaScriptFSMEngine
      [] l = "TypeScript" -> typeScriptFSMEngine
      [] l = "Python" -> pythonFSMEngine
      [] l = "Rust" -> rustFSMEngine
      [] l = "Ruby" -> rubyFSMEngine
      [] l = "Java" -> javaFSMEngine
      [] l = "C/C++" -> cCppFSMEngine
      [] l = "SQL" -> sqlFSMEngine

\* e.processLine(currentLine) of the engine of language l
processLine(l, e, line) ==
    CASE l = "Go" -> goProcessLine(e, line)
      [] l = "JavaScript" -> javaScriptProcessLine(e, line)
      [] l = "TypeScript" -> typeScriptProcessLine(e, line)
      [] l = "Python" -> pythonProcessLine(e, line)
      [] l = "Rust" -> rustProcessLine(e, line)
      [] l = "Ruby" -> rubyProcessLine(e, line)
      [] l = "Java" -> javaProcessLine(e, line)
      [] l = "C/C++" -> cCppProcessLine(e, line)
      [] l = "SQL" -> sqlProcessLine(e, line)

\* ------------------------------------------------------------------------
\* Inputs of the classifiers: the line texts a stream may deliver
\* ------------------------------------------------------------------------

\* runes that the engine of a language tells apart, with x for any other rune
Alphabet(l) ==
    CASE l = "Go" -> {"x", " ", "/", "*", "\"", "'", BACKTICK, "\\"}
      [] l = "JavaScript" -> {"x", " ", "/", "*", "\"", "'", BACKTICK, "\\"}
      [] l = "TypeScript" -> {"x", " ", "/", "*", "\"", "'", BACKTICK, "\\"}
      [] l = "Python" -> {"x", " ", "#", "\"", "'", "\\"}
      [] l = "Rust" -> {"x", " ", "/", "*", "\"", "'", "\\", "#", "r", "b"}
      [] l = "Ruby" -> {"x", " ", "#", "\"", "'", "\\"}
      [] l = "Java" -> {"x", " ", "/", "*", "\"", "'", "\\"}
      [] l = "C/C++" -> {"x", " ", "/", "*", "\"", "'", "\\"}
      [] l = "SQL" -> {"x", " ", "-", "/", "*", "\"", "'", "\\"}

\* literal lines: the scenarios of the tests and of the language rules
ScenarioLines(l) ==
    CASE l = "Go" ->
        { <<"x", " ", ":", "=", " ", "1", " ", "/", "/", " ", "c">>,
          <<"s", " ", ":", "=", " ", "\"", "a", " ", "/", "/", " ", "b", "\"">>,
          <<"x", " ", "/", "*", " ", "a", " ", "/", "*", " ", "b", " ", "*", "/", " ", "y">>,
          <<BACKTICK, "a", " ", "/", "/", " ", "b", BACKTICK>>,
          <<"a", "\\", BACKTICK, " ", "/", "/">>,
          <<"x", "/", "/", "\"", "/", "*">>,
          <<"\"", "a", "\\", "\"", "b", "\"", "/", "/">> }
      [] l = "JavaScript" ->
        { <<"x", " ", "=", " ", "1", " ", "/", "/", " ", "c">>,
          <<"s", " ", "=", " ", "'", "a", " ", "/", "/", " ", "b", "'">>,
          <<BACKTICK, "a", " ", "/", "*", " ", "b", BACKTICK>>,
          <<"a", "\\", BACKTICK, " ", "/", "/">>,
          <<BACKTICK, ";", "/", "/">>,
          <<"x", " ", "/", "*", " ", "a", " ", "/", "*", " ", "b", " ", "*", "/", " ", "y">> }
      [] l = "TypeScript" ->
        { <<"x", " ", "=", " ", "1", " ", "/", "/", " ", "c">>,
          <<"s", " ", "=", " ", "'", "a", " ", "/", "/", " ", "b", "'">>,
          <<BACKTICK, "a", " ", "/", "*", " ", "b", BACKTICK>>,
          <<"a", "\\", BACKTICK, " ", "/", "/">>,
          <<BACKTICK, ";", "/", "/">>,
          <<"x", " ", "/", "*", " ", "a", " ", "/", "*", " ", "b", " ", "*", "/", " ", "y">> }
      [] l = "Python" ->
        { <<"v", " ", "=", " ", "\"", "a", " ", "#", " ", "b", "\"">>,
          <<"#", " ", "r", "e", "a", "l">>,
          <<"x", " ", "=", " ", "1", " ", "#", " ", "c">>,
          <<"\"", "\"", "\"", "a", " ", "#", " ", "b">>,
          <<"c", " ", "\\", "\"", "\"", "\"", " ", "d">>,
          <<"'", "'", "'", "a">>,
          <<"b", "'", "'", "'", " ", "#", " ", "c">>,
          <<"x", "#", "\"">> }
      [] l = "Rust" ->
        { <<"x", ";", " ", "/", "*", " ", "o", "u", "t", "e", "r", " ", "/", "*", " ", "i", "n", "n", "e", "r", " ", "*", "/", " ", "t", "a", "i", "l", " ", "*", "/">>,
          <<"/", "*", " ", "/", "*", " ", "*", "/", " ", "t", " ", "*", "/">>,
          <<"l", "e", "t", " ", "x", " ", "=", " ", "1", ";", " ", "/", "/", " ", "c">>,
          <<"s", " ", "=", " ", "\"", "a", " ", "/", "/", " ", "b", "\"">>,
          <<"r", "#", "\"", "a", " ", "/", "/", " ", "b">>,
          <<"c", "\"", "#", " ", "/", "/", " ", "d">>,
          <<"f", "<", "'", "a", ">", "(", ")", " ", "/", "/", " ", "c">>,
          <<"b", "r", "#", "#", "\"", "a", "\\">>,
          <<"\"", "#", "x", "\"", "#", "#", "/", "/">>,
          <<"r", "\"", "\\", "\"", "/", "/">>,
          <<"'", "\\", "'", " ", "/", "/">>,
          <<"'", "/", "'", "/", "/">>,
          <<"'", "\\", "'", "'", "/", "/">> }
      [] l = "Ruby" ->
        { <<"=", "b", "e", "g", "i", "n">>,
          <<"c", "o", "m", "m", "e", "n", "t", " ", "b", "o", "d", "y">>,
          <<"=", "e", "n", "d">>,
          <<" ", "=", "b", "e", "g", "i", "n", " ", "x">>,
          <<"=", "e", "n", "d", " ", "x">>,
          <<"=", "b", "e", "g", "i", "n", "x">>,
          <<"=", "b", "e", "g", "i", "n", NBSP, "x">>,
          <<"p", "u", "t", "s", " ", "\"", "o", "k", "\"">>,
          <<"x", " ", "=", " ", "1", " ", "#", " ", "c">>,
          <<"s", " ", "=", " ", "\"", "a", " ", "#", " ", "b", "\"">> }
      [] l = "Java" ->
        { <<"x", " ", "=", " ", "1", ";", " ", "/", "/", " ", "c">>,
          <<"s", " ", "=", " ", "\"", "a", " ", "/", "/", " ", "b", "\"", ";">>,
          <<"\"", "\"", "\"">>,
          <<"a", " ", "/", "/", " ", "b", " ", "/", "*", " ", "c">>,
          <<"\"", "\"", "\"", ";", " ", "/", "/", " ", "d">>,
          <<"a", "\\", "\"", "\"", "\"", " ", "/", "/">>,
          <<"x", " ", "/", "*", " ", "a", " ", "/", "*", " ", "b", " ", "*", "/", " ", "y">> }
      [] l = "C/C++" ->
        { <<"x", " ", "=", " ", "1", ";", " ", "/", "/", " ", "c">>,
          <<"s", " ", "=", " ", "\"", "a", " ", "/", "/", " ", "b", "\"", ";">>,
          <<"c", " ", "=", " ", "'", "/", "'", ";", " ", "/", "*", " ", "d">>,
          <<"x", " ", "/", "*", " ", "a", " ", "/", "*", " ", "b", " ", "*", "/", " ", "y">> }
      [] l = "SQL" ->
        { <<"S", "E", "L", "E", "C", "T", " ", "1", ";", " ", "/", "*", " ", "o", "u", "t", "e", "r", " ", "/", "*", " ", "i", "n", "n", "e", "r", " ", "*", "/", " ", "o", "u", "t", "e", "r", " ", "*", "/">>,
          <<"-", "-", " ", "l", "i", "n", "e">>,
          <<"S", "E", "L", "E", "C", "T", " ", "'", "a", " ", "-", "-", " ", "b", "'", ";">>,
          <<"S", "E", "L", "E", "C", "T", " ", "1", ";", " ", "-", "-", " ", "c">>,
          <<"'", "a", "'", "'", "/", "*", "b", "'">>,
          <<"x", "-", "-", "'", "/", "*">>,
          <<"a", "\\", "'", " ", "-", "-">>,
          <<"a", "'", "'", "-", "-", "/", "*">>,
          <<"a", "\"", "\"", "-", "-", "/", "*">> }

Lines(l) == BoundedSeq(Alphabet(l), MaxLineLen) \cup ScenarioLines(l)

\* ------------------------------------------------------------------------
\* Analyze applied to the whole content of a file
\* ------------------------------------------------------------------------

\* index of the first "\n" of s at or after i, or 0 when there is none
RECURSIVE IndexOfNewline(_, _)
IndexOfNewline(s, i) ==
    IF i > Len(s) THEN 0
    ELSE IF s[i] = "\n" THEN i
    ELSE IndexOfNewline(s, i + 1)

\* bufferedReader.ReadString('\n') on a stream that still holds rest
ReadStringFrom(rest) ==
    LET k == IndexOfNewline(rest, 1) IN
    IF k = 0
    THEN [line |-> rest, err |-> "EOF", rest |-> <<>>]
    ELSE [line |-> SubSeq(rest, 1, k), err |-> "nil", rest |-> SubSeq(rest, k + 1, Len(rest))]

RECURSIVE analyzeLoop(_, _, _, _)
analyzeLoop(l, rest, e, m) ==
    LET rd == ReadStringFrom(rest) IN
    IF rd.err = "EOF" /\ Len(rd.line) = 0 THEN m
    ELSE LET currentLine == normalizeLine(rd.line)
             r == processLine(l, e, currentLine)
             m2 == applyLineClassification(m, currentLine, r.hasCode, r.hasComment)
         IN IF rd.err = "EOF" THEN m2 ELSE analyzeLoop(l, rd.rest, r.eng, m2)

\* Analyze of the analyzer of language l on a stream without read errors
analyze(l, content) == analyzeLoop(l, content, newEngine(l), ZeroMetrics)

\* ------------------------------------------------------------------------
\* State of one call of Service.ScanPath
\* ------------------------------------------------------------------------

VARIABLES
    input,         \* the host, the path argument, the files it names and
                   \* what Analyze computes of their contents
    workers,       \* s.workers
    tasks,         \* the channel tasks: the scanTasks it buffers
    tasksClosed,   \* close(tasks) has been called
    results,       \* the channel results: the workerResults it buffers
    resultsClosed, \* close(results) has been called
    walkErrChan,   \* the channel walkErrChan
    producer,      \* the goroutine that enqueues: its position
    worker,        \* the goroutines that run runWorker: position and locals
    mainPc,        \* position of ScanPath itself
    result,        \* the ScanResult under construction
    retErr,        \* the error ScanPath returns
    opens,         \* how many times os.Open has been called
    enqueued       \* the scanTasks sent on tasks so far, in order

scanVars == <<input, workers, tasks, tasksClosed, results, resultsClosed,
              walkErrChan, producer, worker, mainPc, result, retErr, opens,
              enqueued>>

\* model.ScanResult{}
ZeroResult ==
    [ScannedPath |-> <<>>, Files |-> <<>>, Languages |-> <<>>,
     Total |-> [Files |-> 0, Total |-> 0, Code |-> 0, Comment |-> 0, Blank |-> 0],
     Errors |-> <<>>]

\* no call of ScanPath is under way
ScanOff ==
    /\ input = [os |-> "unix", targetPath |-> <<>>, stat |-> "missing", entries |-> <<>>,
                analysis |-> <<>>]
    /\ workers = 0
    /\ tasks = <<>> /\ tasksClosed = FALSE
    /\ results = <<>> /\ resultsClosed = FALSE
    /\ walkErrChan = <<>>
    /\ producer = [pc |-> "off", pos |-> 0, ret |-> <<>>]
    /\ worker = <<>>
    /\ mainPc = "off"
    /\ result = ZeroResult
    /\ retErr = <<>>
    /\ opens = 0
    /\ enqueued = <<>>

\* ------------------------------------------------------------------------
\* State of the registry's callers and of one run of the scan command
\* ------------------------------------------------------------------------

VARIABLES
    lookup,        \* a call of Registry.AnalyzerForFile: argument and results
    listed,        \* what a call of Registry.Languages has returned
    cmd            \* the scan command: the flags, the position of RunE, its
                   \* error, what it wrote to stdout and the files it wrote

cliVars == <<lookup, listed, cmd>>

NoLookup ==
    [os |-> "unix", stem |-> <<>>, ext |-> <<>>, path |-> <<>>,
     called |-> FALSE, analyzer |-> "none", ok |-> FALSE]

NoCmd ==
    [pc |-> "off", format |-> <<>>, output |-> <<>>, workers |-> 0,
     err |-> <<>>, stdout |-> <<>>, files |-> <<>>]

\* the registry is not called from outside the scan, no command runs
CliOff ==
    /\ lookup = NoLookup
    /\ listed = <<>>
    /\ cmd = NoCmd

\* ------------------------------------------------------------------------
\* State
\* ------------------------------------------------------------------------

VARIABLES
    lang,        \* the analyzer whose Analyze is running
    eng,         \* the engine: the cross-line lexical state
    engBefore,   \* the engine as it was before the last processLine
    metrics,     \* the LineMetrics accumulated by analyze
    metricsBefore, \* metrics as they were before the last applyLineClassification
    pc,          \* position in analyze: "read", "loop", "classified",
                 \* "done", "failed"
    line,        \* the string returned by the last ReadString
    err,         \* the error returned by the last ReadString
    hasCode,     \* the flags returned by the last processLine
    hasComment,
    physLines    \* physical lines the stream has delivered so far

vars == <<lang, eng, engBefore, metrics, metricsBefore, pc, line, err, hasCode, hasComment, physLines>>

\* every variable: those of the classifier and those of the scan
allVars == <<vars, scanVars, cliVars>>

\* ------------------------------------------------------------------------
\* analyze: the read loop shared by the nine engines
\* ------------------------------------------------------------------------

\* how a chunk returned by ReadString ends: with "\n", with "\r\n", at the
\* end of the stream, or with a read error
Terms == {"LF", "CRLF", "EOF", "ERR"}

TermRunes(term) ==
    CASE term = "LF" -> <<"\n">>
      [] term = "CRLF" -> <<"\r", "\n">>
      [] OTHER -> <<>>

\* data that was read before a failing read
ErrPartials == {<<>>, <<"x">>}

Init ==
    /\ lang \in Languages
    /\ eng = newEngine(lang)
    /\ engBefore = newEngine(lang)
    /\ metrics = ZeroMetrics
    /\ metricsBefore = ZeroMetrics
    /\ pc = "read"
    /\ line = <<>>
    /\ err = "nil"
    /\ hasCode = FALSE
    /\ hasComment = FALSE
    /\ physLines = 0
    /\ ScanOff
    /\ CliOff

\* line, err := bufferedReader.ReadString('\n')
ReadString ==
    /\ pc = "read"
    /\ \E text \in Lines(lang), term \in Terms :
        /\ term = "ERR" => text \in ErrPartials
        /\ physLines >= MaxLines => (term \in {"EOF", "ERR"} /\ text = <<>>)
        /\ line' = text \o TermRunes(term)
        /\ err' = (CASE term = "EOF" -> "EOF" [] term = "ERR" -> "ERR" [] OTHER -> "nil")
        /\ physLines' = IF term \in {"LF", "CRLF"} \/ (term = "EOF" /\ text # <<>>)
                        THEN physLines + 1 ELSE physLines
    /\ pc' = "loop"
    /\ UNCHANGED <<lang, eng, engBefore, metrics, metricsBefore, hasCode, hasComment>>
    /\ UNCHANGED <<scanVars, cliVars>>

\* if errors.Is(err, io.EOF) && len(line) == 0 { break }
BreakAtEOF ==
    /\ pc = "loop"
    /\ err = "EOF" /\ Len(line) = 0
    /\ pc' = "done"
    /\ UNCHANGED <<lang, eng, engBefore, metrics, metricsBefore, line, err, hasCode, hasComment, physLines>>
    /\ UNCHANGED <<scanVars, cliVars>>

\* if err != nil && !errors.Is(err, io.EOF) { return metrics, err }
ReturnReadError ==
    /\ pc = "loop"
    /\ ~(err = "EOF" /\ Len(line) = 0)
    /\ err # "nil" /\ err # "EOF"
    /\ pc' = "failed"
    /\ UNCHANGED <<lang, eng, engBefore, metrics, metricsBefore, line, err, hasCode, hasComment, physLines>>
    /\ UNCHANGED <<scanVars, cliVars>>

\* the body of the loop: normalizeLine, processLine, applyLineClassification,
\* and the break after a last line without "\n"
ClassifyLine ==
    /\ pc = "loop"
    /\ ~(err = "EOF" /\ Len(line) = 0)
    /\ ~(err # "nil" /\ err # "EOF")
    /\ LET currentLine == normalizeLine(line)
           r == processLine(lang, eng, currentLine)
       IN /\ engBefore' = eng
          /\ metricsBefore' = metrics
          /\ eng' = r.eng
          /\ hasCode' = r.hasCode
          /\ hasComment' = r.hasComment
          /\ metrics' = applyLineClassification(metrics, currentLine, r.hasCode, r.hasComment)
    /\ pc' = "classified"
    /\ UNCHANGED <<lang, line, err, physLines>>
    /\ UNCHANGED <<scanVars, cliVars>>

\* an analyze that fails when the last line leaves the engine in a state
\* other than its initial one
BreakAfterLastLine_OpenStateFails ==
    /\ pc = "classified"
    /\ err = "EOF"
    /\ pc' = IF eng = newEngine(lang) THEN "done" ELSE "failed"
    /\ UNCHANGED <<lang, eng, engBefore, metrics, metricsBefore, line, err, hasCode, hasComment, physLines>>
    /\ UNCHANGED <<scanVars, cliVars>>

\* if errors.Is(err, io.EOF) { break } after the last line, which has no "\n"
BreakAfterLastLine ==
    /\ pc = "classified"
    /\ err = "EOF"
    /\ pc' = "done"
    /\ UNCHANGED <<lang, eng, engBefore, metrics, metricsBefore, line, err, hasCode, hasComment, physLines>>
    /\ UNCHANGED <<scanVars, cliVars>>

\* the back edge of the for loop: the locals of the iteration (line, err,
\* hasCode, hasComment) go out of scope
NextIteration ==
    /\ pc = "classified"
    /\ err # "EOF"
    /\ pc' = "read"
    /\ line' = <<>>
    /\ err' = "nil"
    /\ hasCode' = FALSE
    /\ hasComment' = FALSE
    /\ engBefore' = eng
    /\ metricsBefore' = metrics
    /\ UNCHANGED <<lang, eng, metrics, physLines>>
    /\ UNCHANGED <<scanVars, cliVars>>

Next ==
    \/ ReadString
    \/ BreakAtEOF
    \/ ReturnReadError
    \/ ClassifyLine
    \/ BreakAfterLastLine
    \/ NextIteration

Spec == Init /\ [][Next]_allVars


\* ------------------------------------------------------------------------
\* applyLineClassification on its own: any metrics, any line, any flags
\* ------------------------------------------------------------------------

\* the counters of the metrics the rule is applied to
MaxCount == 1

\* the lines the rule is applied to: empty, of white space, and with text
RuleLines ==
    { <<>>, <<" ">>, <<"\t", " ">>, <<"x">>, <<" ", "x", " ">>, <<"/", "/">> }

\* a caller is about to apply the rule to a line it has classified
RuleInit ==
    /\ lang = "Go" /\ eng = newEngine("Go") /\ engBefore = newEngine("Go")
    /\ metrics \in [Total : 0..MaxCount, Code : 0..MaxCount,
                    Comment : 0..MaxCount, Blank : 0..MaxCount]
    /\ metricsBefore = metrics
    /\ pc = "apply"
    /\ line \in RuleLines
    /\ err = "nil"
    /\ hasCode \in BOOLEAN
    /\ hasComment \in BOOLEAN
    /\ physLines = 0
    /\ ScanOff
    /\ CliOff

\* applyLineClassification(&metrics, line, hasCode, hasComment)
CallApplyLineClassification ==
    /\ pc = "apply"
    /\ metricsBefore' = metrics
    /\ metrics' = applyLineClassification(metrics, line, hasCode, hasComment)
    /\ pc' = "applied"
    /\ UNCHANGED <<lang, eng, engBefore, line, err, hasCode, hasComment, physLines>>
    /\ UNCHANGED <<scanVars, cliVars>>

RuleNext == CallApplyLineClassification

RuleSpec == RuleInit /\ [][RuleNext]_allVars


\* ------------------------------------------------------------------------
\* Strings of the scanner: paths, extensions and language names are
\* sequences of runes, as the lines are
\* ------------------------------------------------------------------------

UpperRunes ==
    <<"A", "B", "C", "D", "E", "F", "G", "H", "I", "J", "K", "L", "M",
      "N", "O", "P", "Q", "R", "S", "T", "U", "V", "W", "X", "Y", "Z">>

LowerRunes ==
    <<"a", "b", "c", "d", "e", "f", "g", "h", "i", "j", "k", "l", "m",
      "n", "o", "p", "q", "r", "s", "t", "u", "v", "w", "x", "y", "z">>

\* the runes of the model's paths and names in the order of their bytes
ByteOrder ==
    <<" ", "+", ".", "/", ":">> \o UpperRunes \o <<"\\">> \o LowerRunes

\* the byte value of a rune, up to the order
Ord(c) == CHOOSE i \in 1..Len(ByteOrder) : ByteOrder[i] = c

\* a < b for Go strings: bytewise lexicographic order
RECURSIVE StrLess(_, _)
StrLess(a, b) ==
    IF b = <<>> THEN FALSE
    ELSE IF a = <<>> THEN TRUE
    ELSE IF a[1] # b[1] THEN Ord(a[1]) < Ord(b[1])
    ELSE StrLess(Tail(a), Tail(b))

\* strings.ToLower
LowerOf ==
    [c \in {UpperRunes[k] : k \in 1..26} |->
        LowerRunes[CHOOSE k \in 1..26 : UpperRunes[k] = c]]

\* a lookup that takes the extension as it is spelled
ToLower_AsSpelled(s) == s

ToLower(s) ==
    [i \in 1..Len(s) |-> IF s[i] \in DOMAIN LowerOf THEN LowerOf[s[i]] ELSE s[i]]

\* strings.Contains
Contains(s, sub) ==
    \E i \in 1..(Len(s) - Len(sub) + 1) : SubSeq(s, i, i + Len(sub) - 1) = sub

\* os.PathSeparator of the host
Separator(os) == IF os = "windows" THEN "\\" ELSE "/"

\* os.IsPathSeparator
IsPathSeparator(os, c) == c = "/" \/ (os = "windows" /\ c = "\\")

\* index of the last path separator of path at or before i, or 0
RECURSIVE LastSeparator(_, _, _)
LastSeparator(os, path, i) ==
    IF i = 0 THEN 0
    ELSE IF IsPathSeparator(os, path[i]) THEN i
    ELSE LastSeparator(os, path, i - 1)

\* filepath.Ext: the suffix that begins at the last dot of the last element
RECURSIVE ExtFrom(_, _, _)
ExtFrom(os, path, i) ==
    IF i = 0 \/ IsPathSeparator(os, path[i]) THEN <<>>
    ELSE IF path[i] = "." THEN SubSeq(path, i, Len(path))
    ELSE ExtFrom(os, path, i - 1)

Ext(os, path) == ExtFrom(os, path, Len(path))

\* filepath.VolumeName of the paths of the model: a drive letter and a colon
VolumeLen(os, path) ==
    IF os = "windows" /\ Len(path) >= 2 /\ path[2] = ":" THEN 2 ELSE 0

\* a Base that takes only the slash for a separator, on every host
Base_SlashOnly(os, path) ==
    SubSeq(path, LastSeparator("unix", path, Len(path)) + 1, Len(path))

\* filepath.Base of a path that does not end with a separator
Base(os, path) ==
    LET p == SubSeq(path, VolumeLen(os, path) + 1, Len(path))
    IN IF p = <<>> THEN <<".">>
       ELSE SubSeq(p, LastSeparator(os, p, Len(p)) + 1, Len(p))

\* filepath.Join(dir, name) for clean operands
Join(os, dir, name) == dir \o <<Separator(os)>> \o name

\* filepath.Rel(basepath, targpath) for clean paths with targpath below
\* basepath; any other pair is reported as an error
Rel(os, basepath, targpath) ==
    IF /\ Len(targpath) > Len(basepath) + 1
       /\ SubSeq(targpath, 1, Len(basepath) + 1) = basepath \o <<Separator(os)>>
    THEN [path |-> SubSeq(targpath, Len(basepath) + 2, Len(targpath)), err |-> FALSE]
    ELSE [path |-> <<>>, err |-> TRUE]

\* filepath.ToSlash
ToSlash(os, path) ==
    IF Separator(os) = "/" THEN path
    ELSE [i \in 1..Len(path) |-> IF path[i] = Separator(os) THEN "/" ELSE path[i]]

\* a sort by key descending
SortedByKey_Descending(seq) ==
    LET After(j, i) == \/ StrLess(seq[i].key, seq[j].key)
                       \/ seq[j].key = seq[i].key /\ j < i
        Place(i) == 1 + Cardinality({j \in 1..Len(seq) : After(j, i)})
    IN [p \in 1..Len(seq) |-> seq[CHOOSE i \in 1..Len(seq) : Place(i) = p].val]

\* a sort that leaves the elements where they are
SortedByKey_AsDelivered(seq) == [p \in 1..Len(seq) |-> seq[p].val]

\* sort.Slice and sort.Strings on keyed elements [key, val], by key ascending:
\* the values in the resulting order (elements of equal key, which the sort
\* could leave in any order, keep theirs)
SortedByKey(seq) ==
    LET Before(j, i) == \/ StrLess(seq[j].key, seq[i].key)
                        \/ seq[j].key = seq[i].key /\ j < i
        Place(i) == 1 + Cardinality({j \in 1..Len(seq) : Before(j, i)})
    IN [p \in 1..Len(seq) |-> seq[CHOOSE i \in 1..Len(seq) : Place(i) = p].val]

\* ------------------------------------------------------------------------
\* The registry of analyzers
\* ------------------------------------------------------------------------

\* the slice analyzers of NewRegistry, in its order
Analyzers ==
    <<"Go", "JavaScript", "TypeScript", "Python", "Rust", "Ruby", "Java", "C/C++", "SQL">>

\* Analyzer.Name()
Name(l) ==
    CASE l = "Go" -> <<"G", "o">>
      [] l = "JavaScript" -> <<"J", "a", "v", "a", "S", "c", "r", "i", "p", "t">>
      [] l = "TypeScript" -> <<"T", "y", "p", "e", "S", "c", "r", "i", "p", "t">>
      [] l = "Python" -> <<"P", "y", "t", "h", "o", "n">>
      [] l = "Rust" -> <<"R", "u", "s", "t">>
      [] l = "Ruby" -> <<"R", "u", "b", "y">>
      [] l = "Java" -> <<"J", "a", "v", "a">>
      [] l = "C/C++" -> <<"C", "/", "C", "+", "+">>
      [] l = "SQL" -> <<"S", "Q", "L">>

\* every analyzer registering .go
Extensions_AllGo(l) == << <<".", "g", "o">> >>

\* Analyzer.Extensions()
Extensions(l) ==
    CASE l = "Go" -> << <<".", "g", "o">> >>
      [] l = "JavaScript" -> << <<".", "j", "s">>, <<".", "m", "j", "s">>, <<".", "c", "j", "s">> >>
      [] l = "TypeScript" -> << <<".", "t", "s">>, <<".", "t", "s", "x">> >>
      [] l = "Python" -> << <<".", "p", "y">> >>
      [] l = "Rust" -> << <<".", "r", "s">> >>
      [] l = "Ruby" -> << <<".", "r", "b">> >>
      [] l = "Java" -> << <<".", "j", "a", "v", "a">> >>
      [] l = "C/C++" -> << <<".", "c">>, <<".", "c", "c">>, <<".", "c", "p", "p">>,
                           <<".", "c", "x", "x">>, <<".", "h">>, <<".", "h", "h">>,
                           <<".", "h", "p", "p">>, <<".", "h", "x", "x">> >>
      [] l = "SQL" -> << <<".", "s", "q", "l">> >>

\* the analyzers that register ext in the loops of NewRegistry, by position
RegisteredAt(ext) ==
    {k \in 1..Len(Analyzers) :
        \E j \in 1..Len(Extensions(Analyzers[k])) : ToLower(Extensions(Analyzers[k])[j]) = ext}

\* registry.analyzerByExt after NewRegistry: every extension that was
\* registered, with the last analyzer that registered it
analyzerByExt ==
    [ext \in UNION { {ToLower(Extensions(Analyzers[k])[j]) :
                        j \in 1..Len(Extensions(Analyzers[k]))} :
                     k \in 1..Len(Analyzers) } |->
        Analyzers[CHOOSE k \in RegisteredAt(ext) : \A j \in RegisteredAt(ext) : j <= k]]

\* Registry.AnalyzerForFile: analyzer, ok := r.analyzerByExt[ext]
AnalyzerForFile(os, path) ==
    LET ext == ToLower(Ext(os, path))
    IN IF ext \in DOMAIN analyzerByExt
       THEN [analyzer |-> analyzerByExt[ext], ok |-> TRUE]
       ELSE [analyzer |-> "none", ok |-> FALSE]

\* Registry.ExtensionsForLanguage for the name of a registered analyzer
ExtensionsForLanguage(language) ==
    LET l == Analyzers[CHOOSE k \in 1..Len(Analyzers) :
                          /\ Name(Analyzers[k]) = language
                          /\ \A j \in 1..(k - 1) : Name(Analyzers[j]) # language]
    IN SortedByKey([j \in 1..Len(Extensions(l)) |->
                        [key |-> Extensions(l)[j], val |-> Extensions(l)[j]]])

\* ------------------------------------------------------------------------
\* The data model
\* ------------------------------------------------------------------------

\* LineMetrics.Add
Add(m, other) ==
    [Total |-> m.Total + other.Total, Code |-> m.Code + other.Code,
     Comment |-> m.Comment + other.Comment, Blank |-> m.Blank + other.Blank]

\* TotalMetrics.AddFileMetrics
AddFileMetrics(m, other) ==
    [Files |-> m.Files + 1,
     Total |-> m.Total + other.Total, Code |-> m.Code + other.Code,
     Comment |-> m.Comment + other.Comment, Blank |-> m.Blank + other.Blank]

\* ------------------------------------------------------------------------
\* buildSummaries
\* ------------------------------------------------------------------------

\* a total that counts the last file only
TotalOver_LastOnly(files, acc) ==
    IF files = <<>> THEN acc
    ELSE AddFileMetrics(acc, files[Len(files)].Metrics)

\* result.Total after the loop over files, started from acc
RECURSIVE TotalOver(_, _)
TotalOver(files, acc) ==
    IF files = <<>> THEN acc
    ELSE TotalOver(Tail(files), AddFileMetrics(acc, Head(files).Metrics))

\* a summary that counts the files of every language
SummaryOver_AnyLanguage(files, summary) ==
    [summary EXCEPT !.Files = @ + Len(files)]

\* *byLanguage[language] after the loop over files, started from summary
RECURSIVE SummaryOver(_, _)
SummaryOver(files, summary) ==
    IF files = <<>> THEN summary
    ELSE IF Head(files).Language # summary.Language
    THEN SummaryOver(Tail(files), summary)
    ELSE SummaryOver(Tail(files),
            [summary EXCEPT !.Files = @ + 1, !.Metrics = Add(@, Head(files).Metrics)])

\* the map byLanguage after the loop over files
byLanguage(files) ==
    [language \in {files[i].Language : i \in 1..Len(files)} |->
        SummaryOver(files,
            [Language |-> language, Extensions |-> ExtensionsForLanguage(language),
             Files |-> 0, Metrics |-> ZeroMetrics])]

\* the values of a map in the order of their keys, which is where the last
\* sort.Slice puts them whatever order the range over the map gives
SortedValues(m) ==
    LET Place(n) == 1 + Cardinality({o \in DOMAIN m : StrLess(o, n)})
    IN [p \in 1..Cardinality(DOMAIN m) |-> m[CHOOSE n \in DOMAIN m : Place(n) = p]]

\* buildSummaries, once files and errors are sorted
Summarized(r, files, errors) ==
    [ScannedPath |-> r.ScannedPath,
     Files |-> files,
     Errors |-> errors,
     Total |-> TotalOver(files, ZeroResult.Total),
     Languages |-> SortedValues(byLanguage(files))]

buildSummaries(r) ==
    CHOOSE built \in
        { Summarized(r, files, errors) :
            files \in {SortedByKey([i \in 1..Len(r.Files) |->
                                       [key |-> r.Files[i].Path, val |-> r.Files[i]]])},
            errors \in {SortedByKey([i \in 1..Len(r.Errors) |->
                                        [key |-> r.Errors[i].Path, val |-> r.Errors[i]]])} } :
        TRUE

\* ------------------------------------------------------------------------
\* Inputs of ScanPath: a host, a path argument, and what the path names
\* ------------------------------------------------------------------------

\* most worker goroutines a Service is built with
MaxWorkers == 2

\* runtime.NumCPU() of the host
NumCPU == 1

\* capacity of the task and of the result channel, per worker
QueueFactor == 4

\* a directory entry, named by its path below the scanned directory (comps:
\* one name per level; none for the argument itself).  kind is "dir",
\* "regular", or "irregular" for what is neither (a symbolic link, a named
\* pipe, a socket, a device); walkErr: the walk reports an error for the
\* entry; fault: the file operation that fails on it, if any
Entry(comps, kind, walkErr, fault, content) ==
    [comps |-> comps, kind |-> kind, walkErr |-> walkErr, fault |-> fault,
     content |-> content]

Dir(comps) == Entry(comps, "dir", FALSE, "none", <<>>)

UnreadableDir(comps) == Entry(comps, "dir", TRUE, "none", <<>>)

File(comps, content) == Entry(comps, "regular", FALSE, "none", content)

\* the operations of runWorker that can fail on a file
Faults == {"open", "read", "close"}

\* three lines: code, comment, code with a comment; the last without "\n"
ThreeLines ==
    <<"p", "\n", "/", "/", " ", "c", "\n", "x", " ", "/", "/", " ", "c">>

TwoLines == <<"p", "\n", "f">>

OneLine == <<"x", ";", " ", "/", "/", " ", "c">>

PlainText == <<"t", "e", "x", "t">>

\* the path of the working directory of the scenarios
Workdir(os) == IF os = "windows" THEN <<"C", ":", "\\", "w">> ELSE <<"/", "w">>

\* the files a single-file scan is run on, by name
SingleFiles ==
    { File(<< <<"s", ".", "g", "o">> >>, ThreeLines),
      File(<< <<"S", ".", "G", "o">> >>, ThreeLines),
      File(<< <<"t", ".", "t", "s", "x">> >>, OneLine),
      File(<< <<"d", ".", "t", "x", "t">> >>, PlainText),
      File(<< <<"M", "a", "k", "e">> >>, PlainText),
      File(<< <<".", "p", "y">> >>, OneLine) }

\* the directories a scan is run on: their entries in the order of the
\* walk (lexical by name, a directory before what it holds)
Trees ==
    { << File(<< <<"R", ".", "t", "x", "t">> >>, PlainText),
         File(<< <<"m", ".", "g", "o">> >>, TwoLines),
         Dir(<< <<"w">> >>),
         File(<< <<"w">>, <<"a", ".", "j", "s">> >>, OneLine) >>,
      << File(<< <<"N", ".", "P", "Y">> >>, OneLine),
         Dir(<< <<"a">> >>),
         File(<< <<"a">>, <<"b", ".", "g", "o">> >>, ThreeLines),
         File(<< <<"a", ".", "g", "o">> >>, TwoLines) >>,
      << File(<< <<"a", ".", "g", "o">> >>, TwoLines),
         UnreadableDir(<< <<"b">> >>),
         File(<< <<"b">>, <<"x", ".", "g", "o">> >>, OneLine),
         File(<< <<"c", ".", "g", "o">> >>, OneLine) >>,
      << Dir(<< <<"g", ".", "g", "o">> >>),
         Entry(<< <<"l", ".", "r", "b">> >>, "irregular", FALSE, "read", <<>>),
         File(<< <<"m", ".", "g", "o">> >>, TwoLines) >>,
      << File(<< <<"a", ".", "g", "o">> >>, TwoLines),
         File(<< <<"b", ".", "j", "s">> >>, OneLine),
         UnreadableDir(<< <<"c">> >>) >> }

\* the entries of a tree with at most one file operation failing
WithFault(tree) ==
    {tree} \cup
    { [tree EXCEPT ![k].fault = f] :
        k \in {i \in 1..Len(tree) : tree[i].kind = "regular"}, f \in Faults }

\* a < b in the order of the walk: name by name, a directory first
RECURSIVE WalksBefore(_, _)
WalksBefore(a, b) ==
    IF a = <<>> THEN b # <<>>
    ELSE IF b = <<>> THEN FALSE
    ELSE IF Head(a) # Head(b) THEN StrLess(Head(a), Head(b))
    ELSE WalksBefore(Tail(a), Tail(b))

InWalkOrder(entries) ==
    \A i, j \in 1..Len(entries) : i < j => WalksBefore(entries[i].comps, entries[j].comps)

\* the path of an entry of the scanned directory, as the walk builds it
RECURSIVE JoinAll(_, _, _)
JoinAll(os, dir, comps) ==
    IF comps = <<>> THEN dir
    ELSE JoinAll(os, Join(os, dir, Head(comps)), Tail(comps))

\* what ScanPath can be called on, on the host os: a blank argument, a path
\* that names nothing, a file (the argument with blanks around it), a
\* directory
InputsOn(os) ==
    { [os |-> os, targetPath |-> <<" ", "\t">>, stat |-> "missing", entries |-> <<>>],
      [os |-> os, targetPath |-> Join(os, Workdir(os), <<"n", "o">>),
       stat |-> "missing", entries |-> <<>>] }
    \cup UNION { { [os |-> os,
                    targetPath |-> <<" ">> \o Join(os, Workdir(os), f.comps[1]) \o <<"\n">>,
                    stat |-> "file",
                    entries |-> t] : t \in WithFault(<<f>>) } : f \in SingleFiles }
    \cup UNION { { [os |-> os, targetPath |-> Join(os, Workdir(os), <<"d">>),
                    stat |-> "dir", entries |-> t] : t \in WithFault(tr) } : tr \in Trees }

Inputs == InputsOn("unix") \cup InputsOn("windows")

\* ------------------------------------------------------------------------
\* ScanPath: the entry, up to the start of the goroutines
\* ------------------------------------------------------------------------

\* NewService: the worker count of the Service
NewService(w) == IF w <= 0 THEN NumCPU ELSE w

\* filepath.IsAbs
IsAbs(os, path) ==
    IF os = "windows"
    THEN Len(path) >= 3 /\ path[2] = ":" /\ IsPathSeparator(os, path[3])
    ELSE Len(path) >= 1 /\ path[1] = "/"

\* filepath.Abs of a clean path
Abs(os, path) == IF IsAbs(os, path) THEN path ELSE Join(os, Workdir(os), path)

trimmedPath == TrimSpace(input.targetPath)

absoluteTarget == Abs(input.os, trimmedPath)

\* the path of an entry: below the scanned directory, or, for the one entry
\* of a single-file scan, below the working directory
EntryPath(e) ==
    JoinAll(input.os,
            IF input.stat = "dir" THEN absoluteTarget ELSE Workdir(input.os),
            e.comps)

\* the entry that a path names
EntryAt(path) ==
    input.entries[CHOOSE k \in 1..Len(input.entries) : EntryPath(input.entries[k]) = path]

\* the error of a failed operation of the operating system on a path
PathError(op, path, what) == <<op, " ">> \o path \o <<": ", what>>

NoTask == [absolutePath |-> <<>>, displayPath |-> <<>>, analyzer |-> "none"]

\* the locals of runWorker at the head of its loop
WorkerStart ==
    [pc |-> "range", task |-> NoTask, metrics |-> ZeroMetrics,
     openErr |-> <<>>, analyzeErr |-> <<>>, closeErr |-> <<>>]

\* the classifiers are not the subject of the scan's state machine
ClassifierOff ==
    /\ lang = "Go" /\ eng = newEngine("Go") /\ engBefore = newEngine("Go")
    /\ metrics = ZeroMetrics /\ metricsBefore = ZeroMetrics
    /\ pc = "off" /\ line = <<>> /\ err = "nil"
    /\ hasCode = FALSE /\ hasComment = FALSE /\ physLines = 0

\* Analyzer.Analyze on a stream that is read to its end without error, for
\* every analyzer and for the content of every file of entries
Analysis(entries) ==
    [l \in {Analyzers[k] : k \in 1..Len(Analyzers)} |->
        [content \in {entries[k].content : k \in 1..Len(entries)} |->
            analyze(l, content)]]

ScanInit ==
    /\ ClassifierOff
    /\ CliOff
    /\ \E in \in Inputs :
          /\ InWalkOrder(in.entries)
          /\ input = [os |-> in.os, targetPath |-> in.targetPath, stat |-> in.stat,
                      entries |-> in.entries, analysis |-> Analysis(in.entries)]
    /\ \E w \in 0..MaxWorkers : workers = NewService(w)
    /\ tasks = <<>> /\ tasksClosed = FALSE
    /\ results = <<>> /\ resultsClosed = FALSE
    /\ walkErrChan = <<>>
    /\ producer = [pc |-> "off", pos |-> 0, ret |-> <<>>]
    /\ worker = <<>>
    /\ mainPc = "start"
    /\ result = ZeroResult
    /\ retErr = <<>>
    /\ opens = 0
    /\ enqueued = <<>>

\* if trimmedPath == "" { return result, errors.New("scan path is empty") }
ReturnEmptyPath ==
    /\ mainPc = "start"
    /\ trimmedPath = <<>>
    /\ retErr' = <<"scan path is empty">>
    /\ mainPc' = "returned"
    /\ UNCHANGED <<input, workers, tasks, tasksClosed, results, resultsClosed,
                   walkErrChan, producer, worker, result, opens, enqueued>>
    /\ UNCHANGED <<vars, cliVars>>

\* info, err := os.Stat(absoluteTarget); if err != nil { return ... }
ReturnStatError ==
    /\ mainPc = "start"
    /\ trimmedPath # <<>>
    /\ input.stat = "missing"
    /\ retErr' = <<"stat path", ": ">>
                    \o PathError("stat", absoluteTarget, "no such file or directory")
    /\ mainPc' = "returned"
    /\ UNCHANGED <<input, workers, tasks, tasksClosed, results, resultsClosed,
                   walkErrChan, producer, worker, result, opens, enqueued>>
    /\ UNCHANGED <<vars, cliVars>>

\* the channels are made and the worker, producer and closer goroutines
\* started; ScanPath goes on to range over results
StartScan ==
    /\ mainPc = "start"
    /\ trimmedPath # <<>>
    /\ input.stat # "missing"
    /\ result' = [result EXCEPT !.ScannedPath = absoluteTarget]
    /\ worker' = [i \in 1..workers |-> WorkerStart]
    /\ producer' = [pc |-> IF input.stat = "dir" THEN "walk" ELSE "single",
                    pos |-> 1, ret |-> <<>>]
    /\ mainPc' = "collect"
    /\ UNCHANGED <<input, workers, tasks, tasksClosed, results, resultsClosed,
                   walkErrChan, retErr, opens, enqueued>>
    /\ UNCHANGED <<vars, cliVars>>

\* ------------------------------------------------------------------------
\* The producer goroutine
\* ------------------------------------------------------------------------

\* queues of eight items per worker
QueueCap_Eight == workers * 8

\* cap(tasks) and cap(results)
QueueCap == workers * QueueFactor

\* what no step of the producer changes
producerFrame ==
    <<input, workers, results, resultsClosed, worker, mainPc, result, retErr, opens, vars, cliVars>>

\* what no step of a worker changes
workerFrame ==
    <<input, workers, tasksClosed, resultsClosed, walkErrChan, producer, mainPc,
      result, retErr, enqueued, vars, cliVars>>

\* the entry the walk is at
walked == input.entries[producer.pos]

\* the scanTask the walk makes of an entry at path, for its analyzer
DirectoryTask(path, analyzer) ==
    LET rel == Rel(input.os, absoluteTarget, path)
        relativePath == IF rel.err THEN path ELSE rel.path
    IN [absolutePath |-> path,
        displayPath |-> ToSlash(input.os, relativePath),
        analyzer |-> analyzer]

\* a callback that skips an entry that holds an error and walks on
WalkFail_WalksOn ==
    /\ producer.pc = "walk" /\ producer.pos <= Len(input.entries)
    /\ walked.walkErr
    /\ producer' = [producer EXCEPT !.pos = @ + 1]
    /\ UNCHANGED <<tasks, enqueued>>
    /\ UNCHANGED <<tasksClosed, walkErrChan>>
    /\ UNCHANGED producerFrame

\* the callback of the walk on an entry that holds an error: the walk ends
WalkFail ==
    /\ producer.pc = "walk" /\ producer.pos <= Len(input.entries)
    /\ walked.walkErr
    /\ producer' = [producer EXCEPT !.pc = "report",
                      !.ret = PathError("open", EntryPath(walked), "permission denied")]
    /\ UNCHANGED <<tasks, enqueued>>
    /\ UNCHANGED <<tasksClosed, walkErrChan>>
    /\ UNCHANGED producerFrame

\* the callback on a directory, or on a file no analyzer is registered for
WalkSkip ==
    /\ producer.pc = "walk" /\ producer.pos <= Len(input.entries)
    /\ ~walked.walkErr
    /\ \E path \in {EntryPath(walked)} :
          walked.kind = "dir" \/ ~AnalyzerForFile(input.os, path).ok
    /\ producer' = [producer EXCEPT !.pos = @ + 1]
    /\ UNCHANGED <<tasks, enqueued>>
    /\ UNCHANGED <<tasksClosed, walkErrChan>>
    /\ UNCHANGED producerFrame

\* the callback on any other entry: its task is sent, once tasks has room
WalkEnqueue ==
    /\ producer.pc = "walk" /\ producer.pos <= Len(input.entries)
    /\ ~walked.walkErr
    /\ walked.kind # "dir"
    /\ Len(tasks) < QueueCap
    /\ \E path \in {EntryPath(walked)} :
       \E found \in {AnalyzerForFile(input.os, path)} :
          /\ found.ok
          /\ \E task \in {DirectoryTask(path, found.analyzer)} :
                tasks' = Append(tasks, task) /\ enqueued' = Append(enqueued, task)
    /\ producer' = [producer EXCEPT !.pos = @ + 1]
    /\ UNCHANGED <<tasksClosed, walkErrChan>>
    /\ UNCHANGED producerFrame

\* the walk has visited every entry
WalkEnd ==
    /\ producer.pc = "walk" /\ producer.pos > Len(input.entries)
    /\ producer' = [producer EXCEPT !.pc = "report", !.ret = <<>>]
    /\ UNCHANGED <<tasks, enqueued>>
    /\ UNCHANGED <<tasksClosed, walkErrChan>>
    /\ UNCHANGED producerFrame

enqueueDirectoryTasks == WalkFail \/ WalkSkip \/ WalkEnqueue \/ WalkEnd

\* a single file of an unsupported extension that is no error
UnsupportedExtension_Nil(filePath) == <<>>

\* fmt.Errorf("unsupported file extension: %s", filepath.Ext(filePath))
UnsupportedExtension(filePath) ==
    <<"unsupported file extension", ": ">> \o Ext(input.os, filePath)

SingleUnsupported ==
    /\ producer.pc = "single"
    /\ \E filePath \in {absoluteTarget} :
          /\ ~AnalyzerForFile(input.os, filePath).ok
          /\ producer' = [producer EXCEPT !.pc = "report",
                            !.ret = UnsupportedExtension(filePath)]
    /\ UNCHANGED <<tasks, enqueued>>
    /\ UNCHANGED <<tasksClosed, walkErrChan>>
    /\ UNCHANGED producerFrame

SingleEnqueue ==
    /\ producer.pc = "single"
    /\ Len(tasks) < QueueCap
    /\ \E filePath \in {absoluteTarget} :
       \E found \in {AnalyzerForFile(input.os, filePath)} :
          /\ found.ok
          /\ \E task \in {[absolutePath |-> filePath,
                            displayPath |-> Base(input.os, filePath),
                            analyzer |-> found.analyzer]} :
                tasks' = Append(tasks, task) /\ enqueued' = Append(enqueued, task)
    /\ producer' = [producer EXCEPT !.pc = "report", !.ret = <<>>]
    /\ UNCHANGED <<tasksClosed, walkErrChan>>
    /\ UNCHANGED producerFrame

enqueueSingleFileTask == SingleUnsupported \/ SingleEnqueue

\* walkErrChan <- the error the enqueueing returned
ReportWalkErr ==
    /\ producer.pc = "report"
    /\ Len(walkErrChan) < 1
    /\ walkErrChan' = Append(walkErrChan, producer.ret)
    /\ producer' = [producer EXCEPT !.pc = "closing"]
    /\ UNCHANGED <<tasks, tasksClosed, enqueued>>
    /\ UNCHANGED producerFrame

\* defer close(tasks)
CloseTasks ==
    /\ producer.pc = "closing"
    /\ tasksClosed' = TRUE
    /\ producer' = [producer EXCEPT !.pc = "done"]
    /\ UNCHANGED <<tasks, walkErrChan, enqueued>>
    /\ UNCHANGED producerFrame

Producer ==
    \/ enqueueDirectoryTasks
    \/ enqueueSingleFileTask
    \/ ReportWalkErr
    \/ CloseTasks

\* ------------------------------------------------------------------------
\* runWorker
\* ------------------------------------------------------------------------

\* for task := range tasks: a task is received
WorkerReceive(i) ==
    /\ worker[i].pc = "range"
    /\ tasks # <<>>
    /\ worker' = [worker EXCEPT ![i] = [WorkerStart EXCEPT !.pc = "open", !.task = Head(tasks)]]
    /\ tasks' = Tail(tasks)
    /\ UNCHANGED <<results, opens>>
    /\ UNCHANGED workerFrame

\* for task := range tasks: tasks is closed and empty, runWorker returns
WorkerExit(i) ==
    /\ worker[i].pc = "range"
    /\ tasks = <<>> /\ tasksClosed
    /\ worker' = [worker EXCEPT ![i].pc = "exited"]
    /\ UNCHANGED <<tasks, results, opens>>
    /\ UNCHANGED workerFrame

\* file, openErr := os.Open(task.absolutePath)
WorkerOpen(i) ==
    /\ worker[i].pc = "open"
    /\ opens' = opens + 1
    /\ LET path == worker[i].task.absolutePath IN
       worker' = IF EntryAt(path).fault = "open"
                 THEN [worker EXCEPT ![i].pc = "push",
                          ![i].openErr = PathError("open", path, "permission denied")]
                 ELSE [worker EXCEPT ![i].pc = "analyze"]
    /\ UNCHANGED <<tasks, results>>
    /\ UNCHANGED workerFrame

\* a worker that pushes the error of a failed classification without
\* closing the file
WorkerAnalyze_NoCloseOnError(i) ==
    /\ worker[i].pc = "analyze"
    /\ LET path == worker[i].task.absolutePath IN
       worker' = IF EntryAt(path).fault = "read"
                 THEN [worker EXCEPT ![i].pc = "push",
                          ![i].analyzeErr = PathError("read", path, "input/output error")]
                 ELSE [worker EXCEPT ![i].pc = "close",
                          ![i].metrics = input.analysis[worker[i].task.analyzer][EntryAt(path).content]]
    /\ UNCHANGED <<tasks, results, opens>>
    /\ UNCHANGED workerFrame

\* metrics, analyzeErr := task.analyzer.Analyze(file); a failing stream
\* fails at its first read
WorkerAnalyze(i) ==
    /\ worker[i].pc = "analyze"
    /\ LET path == worker[i].task.absolutePath IN
       worker' = IF EntryAt(path).fault = "read"
                 THEN [worker EXCEPT ![i].pc = "close",
                          ![i].analyzeErr = PathError("read", path, "input/output error")]
                 ELSE [worker EXCEPT ![i].pc = "close",
                          ![i].metrics = input.analysis[worker[i].task.analyzer][EntryAt(path).content]]
    /\ UNCHANGED <<tasks, results, opens>>
    /\ UNCHANGED workerFrame

\* closeErr := file.Close()
WorkerClose(i) ==
    /\ worker[i].pc = "close"
    /\ LET path == worker[i].task.absolutePath IN
       worker' = IF EntryAt(path).fault = "close"
                 THEN [worker EXCEPT ![i].pc = "push",
                          ![i].closeErr = PathError("close", path, "input/output error")]
                 ELSE [worker EXCEPT ![i].pc = "push"]
    /\ UNCHANGED <<tasks, results, opens>>
    /\ UNCHANGED workerFrame

\* a worker that reports the metrics of a file whose Close failed as well
WorkerResultOf_KeepMetrics(w) ==
    LET failure == IF w.openErr # <<>> THEN w.openErr
                   ELSE IF w.analyzeErr # <<>> THEN w.analyzeErr
                   ELSE w.closeErr
    IN [fileMetrics |-> IF w.openErr = <<>> /\ w.analyzeErr = <<>>
                        THEN <<[Path |-> w.task.displayPath,
                                Language |-> Name(w.task.analyzer),
                                Metrics |-> w.metrics]>>
                        ELSE <<>>,
        scanError |-> IF failure # <<>>
                      THEN <<[Path |-> w.task.displayPath, Error |-> failure]>>
                      ELSE <<>>]

\* the workerResult that runWorker sends for its task
WorkerResultOf(w) ==
    LET failure == IF w.openErr # <<>> THEN w.openErr
                   ELSE IF w.analyzeErr # <<>> THEN w.analyzeErr
                   ELSE w.closeErr
    IN IF failure # <<>>
       THEN [fileMetrics |-> <<>>,
             scanError |-> <<[Path |-> w.task.displayPath, Error |-> failure]>>]
       ELSE [fileMetrics |-> <<[Path |-> w.task.displayPath,
                                Language |-> Name(w.task.analyzer),
                                Metrics |-> w.metrics]>>,
             scanError |-> <<>>]

\* results <- workerResult{...}; continue
WorkerPush(i) ==
    /\ worker[i].pc = "push"
    /\ Len(results) < QueueCap
    /\ results' = Append(results, WorkerResultOf(worker[i]))
    /\ worker' = [worker EXCEPT ![i] = WorkerStart]
    /\ UNCHANGED <<tasks, opens>>
    /\ UNCHANGED workerFrame

runWorker(i) ==
    \/ WorkerReceive(i)
    \/ WorkerExit(i)
    \/ WorkerOpen(i)
    \/ WorkerAnalyze(i)
    \/ WorkerClose(i)
    \/ WorkerPush(i)

\* ------------------------------------------------------------------------
\* The closer goroutine and the collecting loop of ScanPath
\* ------------------------------------------------------------------------

\* a closer that closes results as soon as one worker has exited
CloseResults_AfterFirstExit ==
    /\ mainPc # "start" /\ ~resultsClosed
    /\ worker # <<>>
    /\ \E i \in 1..workers : worker[i].pc = "exited"
    /\ resultsClosed' = TRUE
    /\ UNCHANGED <<input, workers, tasks, tasksClosed, results, walkErrChan,
                   producer, worker, mainPc, result, retErr, opens, enqueued>>
    /\ UNCHANGED <<vars, cliVars>>

\* workerGroup.Wait(); close(results)
CloseResults ==
    /\ mainPc # "start" /\ ~resultsClosed
    /\ worker # <<>>
    /\ \A i \in 1..workers : worker[i].pc = "exited"
    /\ resultsClosed' = TRUE
    /\ UNCHANGED <<input, workers, tasks, tasksClosed, results, walkErrChan,
                   producer, worker, mainPc, result, retErr, opens, enqueued>>
    /\ UNCHANGED <<vars, cliVars>>

\* for item := range results: an item is received and appended
Collect ==
    /\ mainPc = "collect"
    /\ results # <<>>
    /\ LET item == Head(results) IN
       result' = [result EXCEPT !.Files = @ \o item.fileMetrics,
                                !.Errors = @ \o item.scanError]
    /\ results' = Tail(results)
    /\ UNCHANGED <<input, workers, tasks, tasksClosed, resultsClosed, walkErrChan,
                   producer, worker, mainPc, retErr, opens, enqueued>>
    /\ UNCHANGED <<vars, cliVars>>

\* for item := range results: results is closed and empty
CollectDone ==
    /\ mainPc = "collect"
    /\ results = <<>> /\ resultsClosed
    /\ mainPc' = "walkErr"
    /\ UNCHANGED <<input, workers, tasks, tasksClosed, results, resultsClosed,
                   walkErrChan, producer, worker, result, retErr, opens, enqueued>>
    /\ UNCHANGED <<vars, cliVars>>

\* if walkErr := <-walkErrChan; walkErr != nil { return result, walkErr }
ReturnWalkErr ==
    /\ mainPc = "walkErr"
    /\ walkErrChan # <<>> /\ Head(walkErrChan) # <<>>
    /\ retErr' = Head(walkErrChan)
    /\ walkErrChan' = Tail(walkErrChan)
    /\ mainPc' = "returned"
    /\ UNCHANGED <<input, workers, tasks, tasksClosed, results, resultsClosed,
                   producer, worker, result, opens, enqueued>>
    /\ UNCHANGED <<vars, cliVars>>

\* s.buildSummaries(&result); return result, nil
ReturnResult ==
    /\ mainPc = "walkErr"
    /\ walkErrChan # <<>> /\ Head(walkErrChan) = <<>>
    /\ walkErrChan' = Tail(walkErrChan)
    /\ result' = buildSummaries(result)
    /\ mainPc' = "returned"
    /\ UNCHANGED <<input, workers, tasks, tasksClosed, results, resultsClosed,
                   producer, worker, retErr, opens, enqueued>>
    /\ UNCHANGED <<vars, cliVars>>

ScanPath ==
    \/ ReturnEmptyPath
    \/ ReturnStatError
    \/ StartScan
    \/ Collect
    \/ CollectDone
    \/ ReturnWalkErr
    \/ ReturnResult

ScanNext ==
    \/ ScanPath
    \/ Producer
    \/ \E i \in DOMAIN worker : WorkerReceive(i)
    \/ \E i \in DOMAIN worker : WorkerExit(i)
    \/ \E i \in DOMAIN worker : WorkerOpen(i)
    \/ \E i \in DOMAIN worker : WorkerAnalyze(i)
    \/ \E i \in DOMAIN worker : WorkerClose(i)
    \/ \E i \in DOMAIN worker : WorkerPush(i)
    \/ CloseResults

ScanSpec == ScanInit /\ [][ScanNext]_allVars

\* the Go scheduler runs every goroutine that can take a step
ScanFairness ==
    /\ WF_allVars(ScanPath)
    /\ WF_allVars(Producer)
    /\ \A i \in 1..MaxWorkers : WF_allVars(i \in DOMAIN worker /\ runWorker(i))
    /\ WF_allVars(CloseResults)

FairScanSpec == ScanSpec /\ ScanFairness

\* ------------------------------------------------------------------------
\* The registry seen from its callers
\* ------------------------------------------------------------------------

\* Registry.Languages: a descriptor per analyzer with its extensions sorted,
\* the descriptors sorted by name
RegistryLanguages ==
    LET descriptors == [k \in 1..Len(Analyzers) |->
                     [Name |-> Name(Analyzers[k]),
                      Extensions |->
                        SortedByKey([j \in 1..Len(Extensions(Analyzers[k])) |->
                            [key |-> Extensions(Analyzers[k])[j],
                             val |-> Extensions(Analyzers[k])[j]]])]]
    IN SortedByKey([k \in 1..Len(descriptors) |->
                       [key |-> descriptors[k].Name, val |-> descriptors[k]]])

\* the extensions paths are built with: the registered ones, <<>> for a
\* name without extension, and some that no analyzer registers
LookupExtensions ==
    UNION { {Extensions(Analyzers[k])[j] : j \in 1..Len(Extensions(Analyzers[k]))} :
            k \in 1..Len(Analyzers) }
    \cup { <<>>, <<".">>, <<".", "t", "x", "t">>, <<".", "g">>, <<".", "g", "o", "x">>,
           <<".", "j", "s", "x">>, <<".", "g", "o", "~">> }

UpperOf(c) ==
    IF \E u \in DOMAIN LowerOf : LowerOf[u] = c
    THEN CHOOSE u \in DOMAIN LowerOf : LowerOf[u] = c
    ELSE c

\* a lower-case extension as a file name spells it
Cased(ext, casing) ==
    CASE casing = "lower" -> ext
      [] casing = "upper" -> [i \in 1..Len(ext) |-> UpperOf(ext[i])]
      [] casing = "title" -> [i \in 1..Len(ext) |-> IF i = 2 THEN UpperOf(ext[i]) ELSE ext[i]]

\* what precedes the extension in the paths looked up: a name, nothing (a
\* name that starts with its dot), and a name in a directory whose name has
\* an extension of its own
LookupStems(os) ==
    { <<"a">>, <<>>, <<"s", ".", "g", "o", Separator(os), "M">>,
      <<"p", ".", "r", "b", "/", "q">> }

\* a caller is about to look up the analyzer of a path
RegistryInit ==
    /\ ClassifierOff
    /\ ScanOff
    /\ cmd = NoCmd
    /\ listed = <<>>
    /\ \E os \in {"unix", "windows"} :
         \E stem \in LookupStems(os), ext \in LookupExtensions,
            casing \in {"lower", "upper", "title"} :
            lookup = [NoLookup EXCEPT !.os = os, !.stem = stem, !.ext = ext,
                                      !.path = stem \o Cased(ext, casing)]

\* analyzer, ok := registry.AnalyzerForFile(path)
LookupAnalyzer ==
    /\ ~lookup.called
    /\ \E found \in {AnalyzerForFile(lookup.os, lookup.path)} :
         lookup' = [lookup EXCEPT !.called = TRUE,
                                  !.analyzer = found.analyzer, !.ok = found.ok]
    /\ UNCHANGED <<listed, cmd, vars, scanVars>>

\* registry.Languages(), as the language command calls it
ListLanguages ==
    /\ listed = <<>>
    /\ listed' = RegistryLanguages
    /\ UNCHANGED <<lookup, cmd, vars, scanVars>>

RegistryNext == LookupAnalyzer \/ ListLanguages

RegistrySpec == RegistryInit /\ [][RegistryNext]_allVars

\* ------------------------------------------------------------------------
\* The scan command: RunE of newScanCmd
\* ------------------------------------------------------------------------

FormatTable == <<"t", "a", "b", "l", "e">>

FormatJSON == <<"j", "s", "o", "n">>

\* the values of --format of the runs of the model
Formats ==
    { FormatTable, FormatJSON, <<" ", "J", "S", "O", "N">>,
      <<"x", "m", "l">>, <<>>, <<"j", "s", "o", "n", "l">> }

\* the values of --output
Outputs == { <<"o", "u", "t", "p", "u", "t", ".", "j", "s", "o", "n">>, <<" ">>,
             <<"r", ".", "j">> }

\* the values of --workers
WorkerFlags == {0 - 1, 0} \cup (1..MaxWorkers)

\* what the command is run on: one host, a blank and a missing path, two
\* single files and two directories
CmdInputs ==
    { in \in InputsOn("unix") :
        \/ in.stat = "missing"
        \/ /\ in.stat = "file"
           /\ in.entries[1].comps[1] \in { <<"s", ".", "g", "o">>, <<"d", ".", "t", "x", "t">> }
        \/ /\ in.stat = "dir"
           /\ Len(in.entries) = 3
           /\ in.entries \in Trees }

\* format := strings.ToLower(strings.TrimSpace(options.format))
format == ToLower(TrimSpace(cmd.format))

\* cobra is about to call RunE with the flags parsed and one argument
CmdInit ==
    /\ ClassifierOff
    /\ lookup = NoLookup
    /\ listed = <<>>
    /\ \E f \in Formats, o \in Outputs, w \in WorkerFlags :
         cmd = [NoCmd EXCEPT !.pc = "RunE", !.format = f, !.output = o, !.workers = w]
    /\ \E in \in CmdInputs :
          /\ InWalkOrder(in.entries)
          /\ input = [os |-> in.os, targetPath |-> in.targetPath, stat |-> in.stat,
                      entries |-> in.entries, analysis |-> Analysis(in.entries)]
    /\ workers = 0
    /\ tasks = <<>> /\ tasksClosed = FALSE
    /\ results = <<>> /\ resultsClosed = FALSE
    /\ walkErrChan = <<>>
    /\ producer = [pc |-> "off", pos |-> 0, ret |-> <<>>]
    /\ worker = <<>>
    /\ mainPc = "off"
    /\ result = ZeroResult
    /\ retErr = <<>>
    /\ opens = 0
    /\ enqueued = <<>>

\* if format != "table" && format != "json" { return errors.New(...) }
RejectFormat ==
    /\ cmd.pc = "RunE"
    /\ format # FormatTable /\ format # FormatJSON
    /\ cmd' = [cmd EXCEPT !.pc = "done",
                          !.err = <<"unsupported format, allowed values: table, json">>]
    /\ UNCHANGED <<lookup, listed, vars, scanVars>>

\* if options.workers <= 0 { return errors.New(...) }
RejectWorkers ==
    /\ cmd.pc = "RunE"
    /\ ~(format # FormatTable /\ format # FormatJSON)
    /\ cmd.workers <= 0
    /\ cmd' = [cmd EXCEPT !.pc = "done", !.err = <<"workers must be greater than 0">>]
    /\ UNCHANGED <<lookup, listed, vars, scanVars>>

\* a RunE that does not check options.workers
CallScanPath_AnyWorkers ==
    /\ cmd.pc = "RunE"
    /\ ~(format # FormatTable /\ format # FormatJSON)
    /\ workers' = NewService(cmd.workers)
    /\ mainPc' = "start"
    /\ cmd' = [cmd EXCEPT !.pc = "ScanPath"]
    /\ UNCHANGED <<input, tasks, tasksClosed, results, resultsClosed, walkErrChan,
                   producer, worker, result, retErr, opens, enqueued>>
    /\ UNCHANGED <<lookup, listed, vars>>

\* service := scanner.NewService(registry, options.workers), and the call
\* of service.ScanPath(args[0])
CallScanPath ==
    /\ cmd.pc = "RunE"
    /\ ~(format # FormatTable /\ format # FormatJSON)
    /\ ~(cmd.workers <= 0)
    /\ workers' = NewService(cmd.workers)
    /\ mainPc' = "start"
    /\ cmd' = [cmd EXCEPT !.pc = "ScanPath"]
    /\ UNCHANGED <<input, tasks, tasksClosed, results, resultsClosed, walkErrChan,
                   producer, worker, result, retErr, opens, enqueued>>
    /\ UNCHANGED <<lookup, listed, vars>>

\* result, err := service.ScanPath(args[0]); if err != nil { return err }
ScanPathFailed ==
    /\ cmd.pc = "ScanPath"
    /\ mainPc = "returned"
    /\ retErr # <<>>
    /\ cmd' = [cmd EXCEPT !.pc = "done", !.err = retErr]
    /\ UNCHANGED <<lookup, listed, vars, scanVars>>

\* case "table": return report.PrintTable(cmd.OutOrStdout(), result)
PrintTable ==
    /\ cmd.pc = "ScanPath"
    /\ mainPc = "returned"
    /\ retErr = <<>>
    /\ format = FormatTable
    /\ \/ cmd' = [cmd EXCEPT !.pc = "done",
                             !.stdout = @ \o << [kind |-> "table", body |-> result] >>]
       \/ cmd' = [cmd EXCEPT !.pc = "done", !.err = <<"write table">>]
    /\ UNCHANGED <<lookup, listed, vars, scanVars>>

\* case "json": if err := report.PrintJSON(cmd.OutOrStdout(), result) ...
PrintJSON ==
    /\ cmd.pc = "ScanPath"
    /\ mainPc = "returned"
    /\ retErr = <<>>
    /\ format = FormatJSON
    /\ \/ cmd' = [cmd EXCEPT !.pc = "WriteJSONFile",
                             !.stdout = @ \o << [kind |-> "json", body |-> result] >>]
       \/ cmd' = [cmd EXCEPT !.pc = "done", !.err = <<"write json", ": ", "short write">>]
    /\ UNCHANGED <<lookup, listed, vars, scanVars>>

\* outputPath := strings.TrimSpace(options.output), "output.json" if empty
outputPath ==
    IF TrimSpace(cmd.output) = <<>>
    THEN <<"o", "u", "t", "p", "u", "t", ".", "j", "s", "o", "n">>
    ELSE TrimSpace(cmd.output)

\* report.WriteJSONFile(outputPath, result), which can fail at creating the
\* directory or writing the file, and on success the line
\* "JSON exported to ..." on stdout
WriteJSONFile ==
    /\ cmd.pc = "WriteJSONFile"
    /\ \/ cmd' = [cmd EXCEPT
                    !.pc = "done",
                    !.files = @ \o << [path |-> outputPath, json |-> result] >>,
                    !.stdout = @ \o << [kind |-> "text",
                                     body |-> <<"\n", "JSON exported to ">>
                                                \o outputPath \o <<"\n">>] >>]
       \/ cmd' = [cmd EXCEPT !.pc = "done",
                             !.err = <<"write output file", ": ", "permission denied">>]
    /\ UNCHANGED <<lookup, listed, vars, scanVars>>

RunE ==
    \/ RejectFormat
    \/ RejectWorkers
    \/ CallScanPath
    \/ ScanPathFailed
    \/ PrintTable
    \/ PrintJSON
    \/ WriteJSONFile

CmdNext == RunE \/ ScanNext

CmdSpec == CmdInit /\ [][CmdNext]_allVars

\* ------------------------------------------------------------------------
\* One iteration of runWorker, with Analyze run as the read loop
\* ------------------------------------------------------------------------

\* a file of language l, by name, on which the operation fault fails
FileOf(l, fault) ==
    Entry(<< <<"f">> \o Extensions(l)[1] >>, "regular", FALSE, fault, <<>>)

\* a worker has received the task of a file of language lang; the stream of
\* the file is what ReadString will deliver
FileInit ==
    /\ lang \in Languages
    /\ eng = newEngine(lang) /\ engBefore = newEngine(lang)
    /\ metrics = ZeroMetrics /\ metricsBefore = ZeroMetrics
    /\ pc = "off" /\ line = <<>> /\ err = "nil"
    /\ hasCode = FALSE /\ hasComment = FALSE /\ physLines = 0
    /\ CliOff
    /\ \E fault \in {"none", "open", "close"} :
          input = [os |-> "unix",
                   targetPath |-> Join("unix", Workdir("unix"), FileOf(lang, fault).comps[1]),
                   stat |-> "file",
                   entries |-> <<FileOf(lang, fault)>>,
                   analysis |-> <<>>]
    /\ workers = 1
    /\ tasks = <<>> /\ tasksClosed = TRUE
    /\ results = <<>> /\ resultsClosed = FALSE
    /\ walkErrChan = <<>>
    /\ producer = [pc |-> "done", pos |-> 1, ret |-> <<>>]
    /\ \E task \in {[absolutePath |-> absoluteTarget,
                     displayPath |-> Base("unix", absoluteTarget),
                     analyzer |-> lang]} :
          /\ worker = <<[WorkerStart EXCEPT !.pc = "open", !.task = task]>>
          /\ enqueued = <<task>>
    /\ mainPc = "collect"
    /\ result = [ZeroResult EXCEPT !.ScannedPath = absoluteTarget]
    /\ retErr = <<>>
    /\ opens = 0

\* task.analyzer.Analyze(file) is entered: a new engine, zero metrics
CallAnalyze ==
    /\ worker[1].pc = "analyze"
    /\ pc = "off"
    /\ pc' = "read"
    /\ UNCHANGED <<lang, eng, engBefore, metrics, metricsBefore, line, err, hasCode,
                   hasComment, physLines>>
    /\ UNCHANGED <<scanVars, cliVars>>

\* metrics, analyzeErr := task.analyzer.Analyze(file): Analyze has returned
AnalyzeReturns ==
    /\ worker[1].pc = "analyze"
    /\ pc \in {"done", "failed"}
    /\ worker' = IF pc = "failed"
                 THEN [worker EXCEPT ![1].pc = "close", ![1].metrics = metrics,
                          ![1].analyzeErr = PathError("read", worker[1].task.absolutePath,
                                                      "input/output error")]
                 ELSE [worker EXCEPT ![1].pc = "close", ![1].metrics = metrics]
    /\ UNCHANGED <<tasks, results, opens>>
    /\ UNCHANGED workerFrame

FileNext ==
    \/ WorkerOpen(1)
    \/ CallAnalyze
    \/ Next
    \/ AnalyzeReturns
    \/ WorkerClose(1)
    \/ WorkerPush(1)
    \/ WorkerExit(1)

FileSpec == FileInit /\ [][FileNext]_allVars

\* ------------------------------------------------------------------------
\* ScanPath on directories with more files than the queues hold
\* ------------------------------------------------------------------------

\* the most files of a directory of these scans
MaxFiles == 6

\* a directory of n Go files a.go, b.go, ..., of one line each
ManyFiles(n) ==
    [k \in 1..n |-> File(<< <<LowerRunes[k], ".", "g", "o">> >>, OneLine)]

\* the directories of these scans: n files; n files and a directory the
\* walk cannot read behind them; n files of which the first cannot be read
LongTrees ==
    UNION { { ManyFiles(n),
              ManyFiles(n) \o <<UnreadableDir(<< <<"z">> >>)>>,
              [ManyFiles(n) EXCEPT ![1].fault = "read"] } : n \in 1..MaxFiles }

\* a small directory with a directory and a file without analyzer in it
SmallTree ==
    << File(<< <<"R", ".", "t", "x", "t">> >>, PlainText),
       File(<< <<"m", ".", "g", "o">> >>, TwoLines),
       Dir(<< <<"w">> >>),
       File(<< <<"w">>, <<"a", ".", "j", "s">> >>, OneLine) >>

\* what these scans are called on: the paths that make ScanPath return at
\* once, two single files, a small directory, and the long directories
QueueInputs ==
    { in \in InputsOn("unix") :
        \/ in.stat = "missing"
        \/ /\ in.stat = "file"
           /\ in.entries = << File(<< <<"d", ".", "t", "x", "t">> >>, PlainText) >>
        \/ /\ in.stat = "file"
           /\ in.entries = << File(<< <<"t", ".", "t", "s", "x">> >>, OneLine) >> }
    \cup { [os |-> "unix", targetPath |-> Join("unix", Workdir("unix"), <<"d">>),
            stat |-> "dir", entries |-> t] : t \in LongTrees \cup {SmallTree} }

QueueInit ==
    /\ ClassifierOff
    /\ CliOff
    /\ \E in \in QueueInputs :
          /\ InWalkOrder(in.entries)
          /\ input = [os |-> in.os, targetPath |-> in.targetPath, stat |-> in.stat,
                      entries |-> in.entries, analysis |-> Analysis(in.entries)]
    /\ \E w \in 1..MaxWorkers : workers = NewService(w)
    /\ tasks = <<>> /\ tasksClosed = FALSE
    /\ results = <<>> /\ resultsClosed = FALSE
    /\ walkErrChan = <<>>
    /\ producer = [pc |-> "off", pos |-> 0, ret |-> <<>>]
    /\ worker = <<>>
    /\ mainPc = "start"
    /\ result = ZeroResult
    /\ retErr = <<>>
    /\ opens = 0
    /\ enqueued = <<>>

QueueSpec == QueueInit /\ [][ScanNext]_allVars

FairQueueSpec == QueueSpec /\ ScanFairness

\* ------------------------------------------------------------------------
\* Calls of Analyze on one analyzer by several workers
\* ------------------------------------------------------------------------

\* the most calls of Analyze one worker makes
MaxCalls == 2

\* a line that leaves the engine of a language outside code state
OpenerLine(l) ==
    CASE l = "Python" -> <<"\"", "\"", "\"">>
      [] l = "Ruby" -> <<"=", "b", "e", "g", "i", "n">>
      [] OTHER -> <<"/", "*">>

\* the contents of the files of these calls: a line of code; a line that
\* opens a comment (for Python a string) and is the last; the same with a
\* line behind it; an open string with a line behind it
CallContents(l) ==
    { <<"x">>,
      OpenerLine(l),
      OpenerLine(l) \o <<"\n", "x", "\n">>,
      <<"\"", "\n", "x">> }

\* a worker that has not called Analyze yet
NoCall(l) ==
    [pc |-> "idle", calls |-> 0, content |-> <<>>, rest |-> <<>>,
     eng |-> newEngine(l), metrics |-> ZeroMetrics, returned |-> FALSE,
     left |-> newEngine(l)]

\* the workers hold the analyzer of one language, the one object the
\* registry made for it
CallsInit ==
    /\ lang \in Languages
    /\ eng = newEngine(lang) /\ engBefore = newEngine(lang)
    /\ metrics = ZeroMetrics /\ metricsBefore = ZeroMetrics
    /\ pc = "off" /\ line = <<>> /\ err = "nil"
    /\ hasCode = FALSE /\ hasComment = FALSE /\ physLines = 0
    /\ CliOff
    /\ input = [os |-> "unix", targetPath |-> <<>>, stat |-> "missing", entries |-> <<>>,
                analysis |-> <<>>]
    /\ workers = MaxWorkers
    /\ tasks = <<>> /\ tasksClosed = FALSE
    /\ results = <<>> /\ resultsClosed = FALSE
    /\ walkErrChan = <<>>
    /\ producer = [pc |-> "off", pos |-> 0, ret |-> <<>>]
    /\ worker = [i \in 1..MaxWorkers |-> NoCall(lang)]
    /\ mainPc = "off"
    /\ result = ZeroResult
    /\ retErr = <<>>
    /\ opens = 0
    /\ enqueued = <<>>

\* what no step of these calls changes
callsFrame ==
    <<vars, cliVars, input, workers, tasks, tasksClosed, results, resultsClosed,
      walkErrChan, producer, mainPc, result, retErr, opens, enqueued>>

\* Analyze going on with the engine its worker used for the file before
EnterAnalyze_KeepsEngine(i) ==
    /\ worker[i].pc = "idle"
    /\ worker[i].calls < MaxCalls
    /\ \E content \in CallContents(lang) :
          worker' = [worker EXCEPT ![i] =
                        [pc |-> "loop", calls |-> worker[i].calls + 1,
                         content |-> content, rest |-> content,
                         eng |-> worker[i].eng, metrics |-> ZeroMetrics,
                         returned |-> FALSE, left |-> worker[i].eng]]
    /\ UNCHANGED callsFrame

\* engine := &xFSMEngine{}; engine.analyze(reader): var metrics, the reader
\* on the content of a file; left keeps the engine the call before this one
\* of the same worker ended with
EnterAnalyze(i) ==
    /\ worker[i].pc = "idle"
    /\ worker[i].calls < MaxCalls
    /\ \E content \in CallContents(lang) :
          worker' = [worker EXCEPT ![i] =
                        [pc |-> "loop", calls |-> worker[i].calls + 1,
                         content |-> content, rest |-> content,
                         eng |-> newEngine(lang), metrics |-> ZeroMetrics,
                         returned |-> FALSE, left |-> worker[i].eng]]
    /\ UNCHANGED callsFrame

\* one iteration of the loop of analyze, up to the break at end-of-file
AnalyzeLine(i) ==
    /\ worker[i].pc = "loop"
    /\ LET rd == ReadStringFrom(worker[i].rest)
           currentLine == normalizeLine(rd.line)
           r == processLine(lang, worker[i].eng, currentLine)
       IN worker' =
            IF rd.err = "EOF" /\ Len(rd.line) = 0
            THEN [worker EXCEPT ![i].pc = "idle", ![i].returned = TRUE]
            ELSE [worker EXCEPT
                    ![i].eng = r.eng,
                    ![i].metrics = applyLineClassification(worker[i].metrics, currentLine,
                                                           r.hasCode, r.hasComment),
                    ![i].rest = rd.rest,
                    ![i].pc = IF rd.err = "EOF" THEN "idle" ELSE "loop",
                    ![i].returned = (rd.err = "EOF")]
    /\ UNCHANGED callsFrame

CallsNext ==
    \/ \E i \in DOMAIN worker : EnterAnalyze(i)
    \/ \E i \in DOMAIN worker : AnalyzeLine(i)

CallsSpec == CallsInit /\ [][CallsNext]_allVars

\* ------------------------------------------------------------------------
\* Observation of one processLine call: the configurations at the head of
\* the scanning loop, in order
\* ------------------------------------------------------------------------

\* one iteration of the loop of the engine of language l
step(l, runes, c) ==
    CASE l = "Go" -> goStep(runes, c.idx, c.eng, c.hasCode, c.hasComment)
      [] l = "JavaScript" -> javaScriptStep(runes, c.idx, c.eng, c.hasCode, c.hasComment)
      [] l = "TypeScript" -> typeScriptStep(runes, c.idx, c.eng, c.hasCode, c.hasComment)
      [] l = "Python" -> pythonStep(runes, c.idx, c.eng, c.hasCode, c.hasComment)
      [] l = "Rust" -> rustStep(runes, c.idx, c.eng, c.hasCode, c.hasComment)
      [] l = "Ruby" -> rubyStep(runes, c.idx, c.eng, c.hasCode, c.hasComment)
      [] l = "Java" -> javaStep(runes, c.idx, c.eng, c.hasCode, c.hasComment)
      [] l = "C/C++" -> cCppStep(runes, c.idx, c.eng, c.hasCode, c.hasComment)
      [] l = "SQL" -> sqlStep(runes, c.idx, c.eng, c.hasCode, c.hasComment)

RECURSIVE TraceFrom(_, _, _)
TraceFrom(l, runes, c) ==
    IF c.returned \/ c.idx > Len(runes) THEN <<c>>
    ELSE <<c>> \o TraceFrom(l, runes, step(l, runes, c))

\* the configuration processLine enters its loop with: what it returns for
\* the empty line, on which the loop does not iterate
StartCfg(l, e) == processLine(l, e, <<>>)

\* a Ruby line that processLine settles before its loop
RubyPrelude(l, e, runes) ==
    l = "Ruby" /\ (e.inBeginEndComment \/ isRubyBeginEndDirective(runes, DirBegin))

TraceOf(l, e, runes) ==
    IF RubyPrelude(l, e, runes) THEN <<processLine(l, e, runes)>>
    ELSE TraceFrom(l, runes, StartCfg(l, e))

\* the line of the last ReadString as processLine saw it
currentLine == normalizeLine(line)

\* the trace of the last processLine call
LineTrace == TraceOf(lang, engBefore, currentLine)

\* runes[i..] starts with tok
StartsAt(runes, i, tok) ==
    i + Len(tok) - 1 <= Len(runes) /\ SubSeq(runes, i, i + Len(tok) - 1) = tok

\* some string, char, raw-string, template or text-block state is active
InString(l, e) ==
    CASE l = "Go" -> e.inDoubleQuotedStr \/ e.inSingleQuotedRune \/ e.inRawStringLiteral
      [] l \in {"JavaScript", "TypeScript"} ->
            e.inSingleQuotedStr \/ e.inDoubleQuotedStr \/ e.inTemplateLiteral
      [] l = "Python" -> e.inSingleQuotedStr \/ e.inDoubleQuotedStr
                            \/ e.inTripleSingleStr \/ e.inTripleDoubleStr
      [] l = "Rust" -> e.inDoubleQuotedStr \/ e.inSingleQuotedChr \/ e.inRawString
      [] l = "Ruby" -> e.inSingleQuotedStr \/ e.inDoubleQuotedStr
      [] l = "Java" -> e.inDoubleQuoted \/ e.inSingleQuoted \/ e.inTextBlockStr
      [] l = "C/C++" -> e.inDoubleQuoted \/ e.inSingleQuoted
      [] l = "SQL" -> e.inSingleQuotedStr \/ e.inDoubleQuotedStr

\* a block-comment state is active
InComment(l, e) ==
    CASE l \in {"Go", "JavaScript", "TypeScript", "Java", "C/C++"} -> e.inBlockComment
      [] l \in {"Rust", "SQL"} -> e.blockCommentDepth # 0
      [] l = "Ruby" -> e.inBeginEndComment
      [] l = "Python" -> FALSE

InCodeState(l, e) == ~InString(l, e) /\ ~InComment(l, e)

LineCommentToken(l) ==
    CASE l \in {"Python", "Ruby"} -> <<"#">>
      [] l = "SQL" -> <<"-", "-">>
      [] OTHER -> <<"/", "/">>

\* a comment token of language l starts at runes[i]
CommentTokenAt(l, runes, i) ==
    \/ StartsAt(runes, i, LineCommentToken(l))
    \/ l \notin {"Python", "Ruby"} /\ StartsAt(runes, i, <<"/", "*">>)

\* ------------------------------------------------------------------------
\* Claims about the classifiers
\* ------------------------------------------------------------------------

\* C1: whatever the language, the reported total is the number of physical
\* lines the stream delivered: one per chunk that ends with "\n", plus one
\* for a non-empty run after the last "\n"; the empty input gives 0.
C1_TotalIsPhysicalLines ==
    pc \in {"read", "classified", "done"} => metrics.Total = physLines

\* a stream of several lines whose last line has no "\n" was read to its end
C1_Witness ==
    /\ pc = "done" /\ err = "EOF" /\ Len(line) > 0
    /\ physLines >= 2 /\ metrics.Total = physLines

Max(a, b) == IF a >= b THEN a ELSE b

MetricsOK(m) ==
    /\ m.Code <= m.Total /\ m.Comment <= m.Total /\ m.Blank <= m.Total
    /\ m.Blank + Max(m.Code, m.Comment) <= m.Total
    /\ m.Total <= m.Blank + m.Code + m.Comment

\* C2: after any sequence of classified lines code, comment and blank are at
\* most total, blank + max(code, comment) <= total <= blank + code + comment,
\* and a line counted as blank is counted neither as code nor as comment.
C2_MetricsBounds ==
    /\ MetricsOK(metrics)
    /\ (pc = "classified" /\ metrics.Blank # metricsBefore.Blank)
            => /\ metrics.Code = metricsBefore.Code
               /\ metrics.Comment = metricsBefore.Comment

\* three lines were classified: two of them as code and comment, one as blank
C2_Witness ==
    /\ pc = "classified" /\ metrics.Blank = metricsBefore.Blank + 1
    /\ metrics = [Total |-> 3, Code |-> 2, Comment |-> 2, Blank |-> 1]

\* a rune that is neither whitespace nor part of any delimiter or token
PlainRune(c) ==
    ~IsSpace(c) /\ c \notin {"/", "*", "\"", "'", BACKTICK, "\\", "#", "-"}

\* plain code, at least one rune of it, and then the line-comment token
CodeThenLineComment(l, runes) ==
    \E k \in 2..Len(runes) :
        /\ StartsAt(runes, k, LineCommentToken(l))
        /\ \A j \in 1..(k - 1) : PlainRune(runes[j]) \/ IsSpace(runes[j])
        /\ \E j \in 1..(k - 1) : PlainRune(runes[j])

\* C3: a line that holds code followed by a line-comment token, met in code
\* state, adds one to code and one to comment, and one (only) to total.
C3_CodeAndCommentOnOneLine ==
    (/\ pc = "classified"
     /\ InCodeState(lang, engBefore)
     /\ ~RubyPrelude(lang, engBefore, currentLine)
     /\ CodeThenLineComment(lang, currentLine))
    => /\ hasCode /\ hasComment
       /\ metrics = [metricsBefore EXCEPT !.Total = @ + 1, !.Code = @ + 1,
                                          !.Comment = @ + 1]

GoInlineLine == <<"x", " ", ":", "=", " ", "1", " ", "/", "/", " ", "c">>

\* the Go line "x := 1 // c" was classified
C3_Witness ==
    /\ lang = "Go" /\ pc = "classified" /\ currentLine = GoInlineLine
    /\ InCodeState(lang, engBefore)
    /\ metrics.Code = metricsBefore.Code + 1
    /\ metrics.Comment = metricsBefore.Comment + 1
    /\ metrics.Total = metricsBefore.Total + 1


\* the first non-whitespace token of the line is tok, and whitespace or the
\* end of the line follows it
FirstTokenIs(runes, tok) ==
    \E i \in 1..Len(runes) :
        /\ \A j \in 1..(i - 1) : IsSpace(runes[j])
        /\ StartsAt(runes, i, tok)
        /\ (i + Len(tok) > Len(runes) \/ IsSpace(runes[i + Len(tok)]))

\* within a line: at a loop head where a string state is active and a comment
\* token starts at the cursor, the iteration neither sets hasComment nor
\* enters a comment state
TokenInertWithinLine ==
    LET tr == LineTrace
    IN \A k \in 1..(Len(tr) - 1) :
          (InString(lang, tr[k].eng) /\ CommentTokenAt(lang, currentLine, tr[k].idx))
          => /\ tr[k + 1].hasComment = tr[k].hasComment
             /\ ~InComment(lang, tr[k + 1].eng)

\* across lines: a Ruby line that starts with =begin, met while a string
\* opened on an earlier line is still open, is not taken for a comment
BeginInertInsideString ==
    (/\ lang = "Ruby"
     /\ InString(lang, engBefore) /\ ~engBefore.inBeginEndComment
     /\ FirstTokenIs(currentLine, DirBegin))
    => ~hasComment /\ ~eng.inBeginEndComment

\* C4: in every classifier, while a string, char, raw-string, template or
\* text-block state is active (opened on this line or on an earlier one), a
\* comment token of the language (//, /*, #, --, =begin) neither sets
\* hasComment nor moves the engine into a comment state.
C4_CommentTokenInertInString ==
    pc = "classified" => TokenInertWithinLine /\ BeginInertInsideString

\* the part of C4 about tokens met by the scanning loop
C4_InertWithinLine == pc = "classified" => TokenInertWithinLine

\* a comment token was met by the loop while a string state was active
C4_WithinLineWitness ==
    /\ pc = "classified" /\ ~hasComment
    /\ \E k \in 1..(Len(LineTrace) - 1) :
          /\ InString(lang, LineTrace[k].eng)
          /\ CommentTokenAt(lang, currentLine, LineTrace[k].idx)

Nesting == {"Rust", "SQL"}

\* one loop iteration met inside a block comment of depth > 0: the opener adds
\* one to the depth, the closer takes one off, any other rune leaves it; the
\* iteration counts as comment, never as code, and touches no string state
NestedCommentStep(runes, c, d) ==
    LET depth == c.eng.blockCommentDepth
    IN /\ d.hasComment /\ d.hasCode = c.hasCode /\ ~d.returned
       /\ IF StartsAt(runes, c.idx, <<"/", "*">>)
          THEN d.idx = c.idx + 2 /\ d.eng = [c.eng EXCEPT !.blockCommentDepth = depth + 1]
          ELSE IF StartsAt(runes, c.idx, <<"*", "/">>)
          THEN d.idx = c.idx + 2 /\ d.eng = [c.eng EXCEPT !.blockCommentDepth = depth - 1]
          ELSE d.idx = c.idx + 1 /\ d.eng = c.eng

\* C5: in the Rust and SQL classifiers block comments nest: the depth is
\* never negative; at a loop head inside a block comment, /* adds one to the
\* depth and */ takes one off; the text met while the depth is above 0 is
\* comment and not code, and code state comes back only at depth 0.
C5_BlockCommentsNest ==
    lang \in Nesting =>
        /\ eng.blockCommentDepth >= 0
        /\ pc = "classified" =>
             LET tr == LineTrace
             IN /\ \A k \in 1..Len(tr) : tr[k].eng.blockCommentDepth >= 0
                /\ \A k \in 1..(Len(tr) - 1) :
                      tr[k].eng.blockCommentDepth > 0
                          => NestedCommentStep(currentLine, tr[k], tr[k + 1])
                /\ (/\ engBefore.blockCommentDepth > 0
                    /\ \A k \in 1..(Len(tr) - 1) : tr[k].eng.blockCommentDepth > 0)
                      => (~hasCode /\ hasComment)

RustNestedLine ==
    <<"x", ";", " ", "/", "*", " ", "o", "u", "t", "e", "r", " ", "/", "*", " ",
      "i", "n", "n", "e", "r", " ", "*", "/", " ", "t", "a", "i", "l", " ", "*", "/">>

\* the Rust line "x; /* outer /* inner */ tail */" was classified from code
\* state: the loop met the t of tail at depth 1, and the line ends at depth 0
C5_Witness ==
    /\ lang = "Rust" /\ pc = "classified" /\ currentLine = RustNestedLine
    /\ engBefore = rustFSMEngine
    /\ \E k \in 1..(Len(LineTrace) - 1) :
          /\ LineTrace[k].idx = 25 /\ currentLine[25] = "t"
          /\ LineTrace[k].eng.blockCommentDepth = 1
          /\ \E j \in 1..k : LineTrace[j].eng.blockCommentDepth = 2
    /\ eng.blockCommentDepth = 0 /\ hasCode /\ hasComment

\* the line was counted as comment and not as code
CountedAsCommentOnly ==
    /\ hasComment /\ ~hasCode
    /\ metrics = [metricsBefore EXCEPT !.Total = @ + 1, !.Comment = @ + 1]

\* a line of code runes and blanks only, with at least one code rune
PlainCode(runes) ==
    /\ \A j \in 1..Len(runes) : (PlainRune(runes[j]) /\ runes[j] # "=") \/ IsSpace(runes[j])
    /\ \E j \in 1..Len(runes) : PlainRune(runes[j])

\* C6 for one classified line, given whether the line begins with the =begin
\* and with the =end directive: a line that begins with =begin opens the block;
\* inside the block every line, the closing one included, is comment and
\* never code, and only a line whose first token is =end closes it; outside
\* the block any other line leaves the block closed and is classified by
\* what it holds.
RubyBlockComment(begins, ends) ==
    /\ (~engBefore.inBeginEndComment /\ begins)
          => eng.inBeginEndComment /\ CountedAsCommentOnly
    /\ engBefore.inBeginEndComment
          => /\ CountedAsCommentOnly
             /\ eng.inBeginEndComment = ~ends
    /\ (~engBefore.inBeginEndComment /\ ~begins)
          => /\ ~eng.inBeginEndComment
             /\ (InCodeState(lang, engBefore) /\ PlainCode(currentLine))
                   => hasCode /\ ~hasComment
    /\ (engBefore.inBeginEndComment \/ begins)
          => /\ eng.inSingleQuotedStr = engBefore.inSingleQuotedStr
             /\ eng.inDoubleQuotedStr = engBefore.inDoubleQuotedStr

\* C6: in the Ruby classifier a line whose first non-whitespace token is
\* =begin, followed by whitespace or the end of the line, opens a block
\* comment and the next line so formed with =end closes it; every line from
\* the opening to the closing one inclusive is counted as comment and never
\* as code, and the line after =end is classified normally.
C6_RubyBeginEnd ==
    (lang = "Ruby" /\ pc = "classified")
    => RubyBlockComment(FirstTokenIs(currentLine, DirBegin),
                        FirstTokenIs(currentLine, DirEnd))

\* FirstTokenIs with the whitespace after the token judged by its first byte
FirstTokenIsBytewise(runes, tok) ==
    \E i \in 1..Len(runes) :
        /\ \A j \in 1..(i - 1) : IsSpace(runes[j])
        /\ StartsAt(runes, i, tok)
        /\ (i + Len(tok) > Len(runes) \/ IsSpace(LeadByte(runes[i + Len(tok)])))

\* what holds of the Ruby block comment: C6 for directives that are followed
\* by the end of the line or by a whitespace rune of one byte
C6_RubyBeginEndBytewise ==
    (lang = "Ruby" /\ pc = "classified")
    => RubyBlockComment(FirstTokenIsBytewise(currentLine, DirBegin),
                        FirstTokenIsBytewise(currentLine, DirEnd))

\* =begin, a body line and =end were classified: three comment lines, no code
C6_Witness ==
    /\ lang = "Ruby" /\ pc = "classified"
    /\ engBefore.inBeginEndComment /\ ~eng.inBeginEndComment
    /\ FirstTokenIs(currentLine, DirEnd)
    /\ metrics = [Total |-> 3, Code |-> 0, Comment |-> 3, Blank |-> 0]

TripleDouble == <<"\"", "\"", "\"">>

TripleSingle == <<"'", "'", "'">>

InTriple(e) == e.inTripleSingleStr \/ e.inTripleDoubleStr

\* one loop iteration met inside the triple-quoted string that delim opened
\* and field records: the string closes exactly where the same delimiter
\* starts, whatever precedes it, and the iteration is code and no comment
TripleStringStep(runes, c, d, delim) ==
    /\ d.hasCode /\ d.hasComment = c.hasComment /\ ~d.returned
    /\ IF StartsAt(runes, c.idx, delim)
       THEN d.idx = c.idx + 3 /\ ~InTriple(d.eng)
       ELSE d.idx = c.idx + 1 /\ d.eng = c.eng
    /\ ~d.eng.inSingleQuotedStr /\ ~d.eng.inDoubleQuotedStr

\* C7: in the Python classifier a triple-quoted string stays open across
\* lines until the same triple delimiter appears; every line it touches
\* counts as code; a # inside it does not count as comment; a backslash
\* inside it does not prevent its termination.
C7_PythonTripleQuoted ==
    (lang = "Python" /\ pc = "classified") =>
        LET tr == LineTrace
        IN /\ tr[1].eng = engBefore /\ tr[Len(tr)].eng = eng
           /\ \A k \in 1..(Len(tr) - 1) :
                 /\ tr[k].eng.inTripleDoubleStr
                       => TripleStringStep(currentLine, tr[k], tr[k + 1], TripleDouble)
                 /\ tr[k].eng.inTripleSingleStr
                       => TripleStringStep(currentLine, tr[k], tr[k + 1], TripleSingle)
           /\ (\E k \in 1..Len(tr) : InTriple(tr[k].eng))
                 => /\ hasCode
                    /\ metrics.Code = metricsBefore.Code + 1
                    /\ metrics.Blank = metricsBefore.Blank
           /\ (\A k \in 1..Len(tr) : InTriple(tr[k].eng)) => ~hasComment

\* after a line that opened """ and held a #, the line c \""" d was
\* classified: the delimiter after the backslash closed the string, and both
\* lines are code and neither is comment
C7_Witness ==
    /\ lang = "Python" /\ pc = "classified"
    /\ currentLine = <<"c", " ", "\\", "\"", "\"", "\"", " ", "d">>
    /\ engBefore.inTripleDoubleStr /\ ~InTriple(eng)
    /\ metrics = [Total |-> 2, Code |-> 2, Comment |-> 0, Blank |-> 0]


\* ------------------------------------------------------------------------
\* Claims about the scanner
\* ------------------------------------------------------------------------

\* the extension of a file name: what starts at its last dot
NameExt(name) ==
    IF \E i \in 1..Len(name) : name[i] = "."
    THEN LET i == CHOOSE i \in 1..Len(name) :
                      name[i] = "." /\ \A j \in (i + 1)..Len(name) : name[j] # "."
         IN SubSeq(name, i, Len(name))
    ELSE <<>>

\* the table of supported extensions: the name of the language of an
\* extension, or <<>> for an extension that is not in the table
LanguageOfExtension(ext) ==
    CASE ext \in { <<".", "g", "o">> } -> <<"G", "o">>
      [] ext \in { <<".", "j", "s">>, <<".", "m", "j", "s">>, <<".", "c", "j", "s">> }
            -> <<"J", "a", "v", "a", "S", "c", "r", "i", "p", "t">>
      [] ext \in { <<".", "t", "s">>, <<".", "t", "s", "x">> }
            -> <<"T", "y", "p", "e", "S", "c", "r", "i", "p", "t">>
      [] ext \in { <<".", "p", "y">> } -> <<"P", "y", "t", "h", "o", "n">>
      [] ext \in { <<".", "r", "s">> } -> <<"R", "u", "s", "t">>
      [] ext \in { <<".", "r", "b">> } -> <<"R", "u", "b", "y">>
      [] ext \in { <<".", "j", "a", "v", "a">> } -> <<"J", "a", "v", "a">>
      [] ext \in { <<".", "c">>, <<".", "c", "c">>, <<".", "c", "p", "p">>,
                   <<".", "c", "x", "x">>, <<".", "h">>, <<".", "h", "h">>,
                   <<".", "h", "p", "p">>, <<".", "h", "x", "x">> }
            -> <<"C", "/", "C", "+", "+">>
      [] ext \in { <<".", "s", "q", "l">> } -> <<"S", "Q", "L">>
      [] OTHER -> <<>>

\* the language the table gives a file name, by its extension in any case
LanguageOfName(name) == LanguageOfExtension(ToLower(NameExt(name)))

\* the name of an entry: the last name of its path
EntryName(e) == e.comps[Len(e.comps)]

\* ScanPath was called on a single file; the file is input.entries[1]
SingleFileScan == input.stat = "file" /\ trimmedPath # <<>>

\* C8: scanning a single file whose extension is registered, and that is
\* opened, read and closed without error, returns no error and exactly one
\* FileMetrics, whose path is the base name of the file and whose language
\* is the name of the classifier of the extension; no ScanError; total.files
\* is 1 and the line metrics of total are those of the file.
C8_SingleFileScan ==
    (/\ mainPc = "returned"
     /\ SingleFileScan
     /\ LanguageOfName(EntryName(input.entries[1])) # <<>>
     /\ input.entries[1].fault = "none")
    => /\ retErr = <<>>
       /\ Len(result.Files) = 1 /\ result.Errors = <<>>
       /\ result.Files[1].Path = EntryName(input.entries[1])
       /\ result.Files[1].Language = LanguageOfName(EntryName(input.entries[1]))
       /\ result.Total = [Files |-> 1,
                          Total |-> result.Files[1].Metrics.Total,
                          Code |-> result.Files[1].Metrics.Code,
                          Comment |-> result.Files[1].Metrics.Comment,
                          Blank |-> result.Files[1].Metrics.Blank]

\* on a Windows host the scan of s.go, three lines of Go, has returned: one
\* file s.go of language Go with 3/2/2/0, and the same in total
C8_Witness ==
    /\ mainPc = "returned" /\ SingleFileScan /\ input.os = "windows"
    /\ workers = 2
    /\ result.Files = << [Path |-> <<"s", ".", "g", "o">>, Language |-> <<"G", "o">>,
                          Metrics |-> [Total |-> 3, Code |-> 2, Comment |-> 2, Blank |-> 0]] >>
    /\ result.Total = [Files |-> 1, Total |-> 3, Code |-> 2, Comment |-> 2, Blank |-> 0]
    /\ retErr = <<>>

\* the names of a path below the scanned directory, joined by forward slashes
RECURSIVE SlashPath(_)
SlashPath(comps) ==
    IF Len(comps) = 1 THEN comps[1]
    ELSE comps[1] \o <<"/">> \o SlashPath(Tail(comps))

\* the display paths of the entries of the scanned directory that satisfy
\* Selected and whose extension is registered
ExpectedPaths(Selected(_)) ==
    { SlashPath(input.entries[k].comps) :
        k \in { i \in 1..Len(input.entries) :
                  /\ Selected(input.entries[i])
                  /\ LanguageOfName(EntryName(input.entries[i])) # <<>> } }

\* a walk of a directory has visited every entry without an error
WalkComplete ==
    /\ input.stat = "dir"
    /\ producer.pc \in {"report", "closing", "done"} /\ producer.ret = <<>>

\* the tasks are those of the entries that satisfy Selected: one task each,
\* with the forward-slash relative path for display path and the entry's own
\* path for absolute path; and the returned result names those paths only
TasksAre(Selected(_)) ==
    /\ WalkComplete
          => /\ {enqueued[k].displayPath : k \in 1..Len(enqueued)} = ExpectedPaths(Selected)
             /\ Len(enqueued) = Cardinality(ExpectedPaths(Selected))
             /\ \A k \in 1..Len(enqueued) :
                   \E i \in 1..Len(input.entries) :
                       /\ enqueued[k].absolutePath = EntryPath(input.entries[i])
                       /\ enqueued[k].displayPath = SlashPath(input.entries[i].comps)
    /\ (WalkComplete /\ mainPc = "returned")
          => {result.Files[k].Path : k \in 1..Len(result.Files)}
                \cup {result.Errors[k].Path : k \in 1..Len(result.Errors)}
              = ExpectedPaths(Selected)

IsRegular(e) == e.kind = "regular"

IsNoDirectory(e) == e.kind # "dir"

\* C9: in a directory scan exactly the regular files whose extension is
\* registered become tasks, each with the forward-slash path relative to the
\* scanned root for display path; files with other extensions and
\* directories produce neither a file entry nor an error entry.
C9_DirectoryTasks == TasksAre(IsRegular)

\* what holds of the directory scan: C9 with every entry that is not a
\* directory in the place of the regular files
C9_NonDirectoryTasks == TasksAre(IsNoDirectory)

\* on a Windows host the walk of the directory with w\a.js has ended: the
\* tasks are m.go and w/a.js, and R.txt and the directory w gave none
C9_Witness ==
    /\ WalkComplete /\ input.os = "windows" /\ mainPc = "returned"
    /\ Len(enqueued) = 2
    /\ enqueued[1].displayPath = <<"m", ".", "g", "o">>
    /\ enqueued[2].displayPath = <<"w", "/", "a", ".", "j", "s">>
    /\ enqueued[2].absolutePath
          = <<"C", ":", "\\", "w", "\\", "d", "\\", "w", "\\", "a", ".", "j", "s">>
    /\ Len(result.Files) = 2 /\ result.Errors = <<>>

\* ScanPath was called on a single file whose extension is not in the table
UnsupportedSingleFile ==
    SingleFileScan /\ LanguageOfName(EntryName(input.entries[1])) = <<>>

\* no file has been handed to a worker, opened or analysed
NoFileAnalysed ==
    /\ opens = 0 /\ enqueued = <<>> /\ tasks = <<>> /\ results = <<>>
    /\ \A i \in DOMAIN worker : worker[i].pc \in {"range", "exited"}
    /\ result.Files = <<>> /\ result.Errors = <<>>

\* both queues are closed and empty, and every goroutine of the scan has ended
ShutDown ==
    /\ tasksClosed /\ resultsClosed /\ tasks = <<>> /\ results = <<>>
    /\ producer.pc = "done"
    /\ DOMAIN worker = 1..workers
    /\ \A i \in DOMAIN worker : worker[i].pc = "exited"

\* ScanPath has returned the error of the unsupported extension
ReturnedUnsupported ==
    /\ mainPc = "returned"
    /\ Contains(retErr, <<"unsupported file extension">>)

\* C10: scanning a single file whose extension is not registered analyses no
\* file, returns an error whose message contains "unsupported file
\* extension", and does return, with the workers ended and the queues closed.
C10_UnsupportedSingleFile ==
    /\ [](UnsupportedSingleFile
            => /\ NoFileAnalysed
               /\ mainPc = "returned" => ReturnedUnsupported /\ ShutDown)
    /\ (UnsupportedSingleFile ~> mainPc = "returned")

\* with two workers, the scan of d.txt has returned "unsupported file
\* extension: .txt" and has shut down
C10_Witness ==
    /\ UnsupportedSingleFile /\ ReturnedUnsupported /\ ShutDown /\ NoFileAnalysed
    /\ workers = 2
    /\ retErr = <<"unsupported file extension", ": ", ".", "t", "x", "t">>

\* ------------------------------------------------------------------------
\* The outcomes of the tasks
\* ------------------------------------------------------------------------

\* the tasks a worker has received and not yet answered
InFlight == {i \in DOMAIN worker : worker[i].pc \in {"open", "analyze", "close", "push"}}

\* how many elements of seq have the path p
CountPath(seq, p) == Cardinality({k \in 1..Len(seq) : seq[k].Path = p})

\* the range over results has ended: every worker has exited
Collected == mainPc \in {"walkErr", "returned"}

\* C11: every enqueued task produces exactly one outcome, one FileMetrics or
\* one ScanError, never both, none or two; a file whose open, read or close
\* fails is recorded in errors and the other tasks are processed all the
\* same, so len(files) + len(errors) is the number of enqueued tasks.
C11_OneOutcomePerTask ==
    /\ \A k \in 1..Len(results) :
          Len(results[k].fileMetrics) + Len(results[k].scanError) = 1
    /\ Len(result.Files) + Len(result.Errors) + Len(results)
          + Cardinality(InFlight) + Len(tasks) = Len(enqueued)
    /\ Collected =>
          /\ Len(result.Files) + Len(result.Errors) = Len(enqueued)
          /\ \A k \in 1..Len(enqueued) :
                LET t == enqueued[k] IN
                /\ CountPath(result.Files, t.displayPath)
                      + CountPath(result.Errors, t.displayPath) = 1
                /\ CountPath(result.Errors, t.displayPath) = 1
                      <=> EntryAt(t.absolutePath).fault # "none"

\* a directory scan has returned without error with two workers: the close
\* of w/a.js failed and is in errors, m.go is in files
C11_Witness ==
    /\ mainPc = "returned" /\ retErr = <<>> /\ workers = 2 /\ input.stat = "dir"
    /\ Len(enqueued) = 2
    /\ Len(result.Files) = 1 /\ result.Files[1].Path = <<"m", ".", "g", "o">>
    /\ Len(result.Errors) = 1
    /\ result.Errors[1].Path = <<"w", "/", "a", ".", "j", "s">>
    /\ Contains(result.Errors[1].Error, <<"close", " ">>)

\* ------------------------------------------------------------------------
\* The returned ScanResult
\* ------------------------------------------------------------------------

\* ScanPath has returned a result and no error
ReturnedResult == mainPc = "returned" /\ retErr = <<>>

\* keys is in ascending order: no element is less than one before it, and
\* no two are equal
Ascending(keys) ==
    \A i, j \in 1..Len(keys) : i < j => StrLess(keys[i], keys[j])

PathsOf(seq) == [k \in 1..Len(seq) |-> seq[k].Path]

\* C12: in every ScanResult returned without error, Files is sorted by path
\* ascending, Errors is sorted by path ascending and Languages is sorted by
\* language name ascending, in whatever order the workers delivered.
C12_ResultSorted ==
    ReturnedResult =>
        /\ Ascending(PathsOf(result.Files))
        /\ Ascending(PathsOf(result.Errors))
        /\ Ascending([k \in 1..Len(result.Languages) |-> result.Languages[k].Language])

\* the scan of the directory with N.PY, a/b.go and a.go has returned: the
\* walk met a/b.go before a.go, the result has a.go before a/b.go
C12_Witness ==
    /\ ReturnedResult /\ workers = 2 /\ input.os = "unix"
    /\ Len(enqueued) = 3
    /\ enqueued[2].displayPath = <<"a", "/", "b", ".", "g", "o">>
    /\ enqueued[3].displayPath = <<"a", ".", "g", "o">>
    /\ PathsOf(result.Files)
          = << <<"N", ".", "P", "Y">>, <<"a", ".", "g", "o">>, <<"a", "/", "b", ".", "g", "o">> >>
    /\ result.Errors = <<>>
    /\ Len(result.Languages) = 2
    /\ result.Languages[1].Language = <<"G", "o">>
    /\ result.Languages[2].Language = <<"P", "y", "t", "h", "o", "n">>

\* ------------------------------------------------------------------------
\* The result as a function of the input
\* ------------------------------------------------------------------------

\* the tasks of the walk from entry k on, in the order of the walk
RECURSIVE TasksFrom(_)
TasksFrom(k) ==
    IF k > Len(input.entries) \/ input.entries[k].walkErr THEN <<>>
    ELSE LET e == input.entries[k]
             found == AnalyzerForFile(input.os, EntryPath(e))
         IN IF e.kind = "dir" \/ ~found.ok THEN TasksFrom(k + 1)
            ELSE <<DirectoryTask(EntryPath(e), found.analyzer)>> \o TasksFrom(k + 1)

\* the tasks of the input: those of the walk, or that of the single file
TasksOfInput ==
    IF input.stat = "dir" THEN TasksFrom(1)
    ELSE IF AnalyzerForFile(input.os, absoluteTarget).ok
    THEN <<[absolutePath |-> absoluteTarget,
            displayPath |-> Base(input.os, absoluteTarget),
            analyzer |-> AnalyzerForFile(input.os, absoluteTarget).analyzer]>>
    ELSE <<>>

\* what a worker answers for a task, by the fault of the file
OutcomeOf(task) ==
    LET fault == EntryAt(task.absolutePath).fault
        path == task.absolutePath
    IN WorkerResultOf(
         [WorkerStart EXCEPT
            !.task = task,
            !.openErr = IF fault = "open"
                        THEN PathError("open", path, "permission denied") ELSE <<>>,
            !.analyzeErr = IF fault = "read"
                           THEN PathError("read", path, "input/output error") ELSE <<>>,
            !.closeErr = IF fault = "close"
                         THEN PathError("close", path, "input/output error") ELSE <<>>,
            !.metrics = IF fault \in {"open", "read"} THEN ZeroMetrics
                        ELSE input.analysis[task.analyzer][EntryAt(path).content]])

\* the result ScanPath holds after it has collected the outcomes of tasks
\* one after the other, in their order
RECURSIVE CollectedInOrder(_, _)
CollectedInOrder(tasks_, r) ==
    IF tasks_ = <<>> THEN r
    ELSE LET item == OutcomeOf(Head(tasks_))
         IN CollectedInOrder(Tail(tasks_),
               [r EXCEPT !.Files = @ \o item.fileMetrics,
                         !.Errors = @ \o item.scanError])

\* the result of the run in which one task after the other is enqueued,
\* processed and collected
SequentialResult ==
    CollectedInOrder(TasksOfInput, [ZeroResult EXCEPT !.ScannedPath = absoluteTarget])

\* the walk of the input fails
WalkFails ==
    /\ input.stat = "dir"
    /\ \E k \in 1..Len(input.entries) : input.entries[k].walkErr

\* C13 (as amended): for fixed file-system contents every ScanResult that
\* ScanPath returns without an error is the same, with Files, Languages,
\* Total and Errors in the same order, under every interleaving of the
\* producer and the workers and for every worker count: it is the summary
\* of the sequential run.
C13_DeterministicResult ==
    ReturnedResult => result = buildSummaries(SequentialResult)

\* C13 (as stated): every ScanResult that ScanPath returns, the one it
\* returns together with the error of a failed walk included, is the same
\* under every interleaving and worker count: it is that of the sequential
\* run.
C13_EveryReturnedResult ==
    (mainPc = "returned" /\ result.ScannedPath # <<>>) =>
        result = IF WalkFails THEN SequentialResult
                 ELSE buildSummaries(SequentialResult)

\* the sequential run of a failing walk is a run: ScanPath has returned the
\* walk error and the result of the sequential run
C13_SequentialRunReached ==
    /\ mainPc = "returned" /\ WalkFails /\ workers = 2
    /\ Len(result.Files) = 2
    /\ result = SequentialResult

\* two workers have scanned the directory with N.PY, a/b.go and a.go, and
\* ScanPath has returned the summary of the sequential run
C13_Witness ==
    /\ ReturnedResult /\ workers = 2 /\ Len(enqueued) = 3
    /\ Len(result.Files) = 3 /\ Len(result.Languages) = 2
    /\ result.Total.Files = 3
    /\ result = buildSummaries(SequentialResult)

\* ------------------------------------------------------------------------
\* C14, C15: totals and per-language summaries
\* ------------------------------------------------------------------------

MetricFields == {"Total", "Code", "Comment", "Blank"}

\* the sum of one metric over the files of r at the positions in set
RECURSIVE MetricSum(_, _, _)
MetricSum(files, set, field) ==
    IF set = {} THEN 0
    ELSE LET i == CHOOSE j \in set : TRUE
         IN files[i].Metrics[field] + MetricSum(files, set \ {i}, field)

\* the positions in files of the files of a language
FilesOfLanguage(files, language) ==
    {i \in 1..Len(files) : files[i].Language = language}

\* C14: in every successfully returned ScanResult total.files is the number
\* of files and the total metrics are the sums over the files; the language
\* of every file appears exactly once in languages, every language entry
\* counts and sums the files of its language (and has one), and a file that
\* ended in an error is in neither: it is no file of the result.
C14_SummariesConsistent ==
    ReturnedResult =>
        LET files == result.Files
            langs == result.Languages
        IN /\ result.Total.Files = Len(files)
           /\ \A f \in MetricFields :
                result.Total[f] = MetricSum(files, 1..Len(files), f)
           /\ \A i \in 1..Len(files) :
                Cardinality({k \in 1..Len(langs) :
                                langs[k].Language = files[i].Language}) = 1
           /\ \A k \in 1..Len(langs) :
                LET own == FilesOfLanguage(files, langs[k].Language)
                IN /\ own # {}
                   /\ langs[k].Files = Cardinality(own)
                   /\ \A f \in MetricFields :
                        langs[k].Metrics[f] = MetricSum(files, own, f)
           /\ \A e \in 1..Len(result.Errors) :
                \A i \in 1..Len(files) : files[i].Path # result.Errors[e].Path
           /\ Len(files) + Len(result.Errors) = Len(enqueued)

\* the directory with N.PY, a/b.go and a.go has been scanned while a.go
\* could not be read: two files of two languages and one error
C14_Witness ==
    /\ ReturnedResult
    /\ Len(result.Files) = 2 /\ Len(result.Errors) = 1
    /\ Len(result.Languages) = 2
    /\ result.Total.Files = 2 /\ result.Total.Total = 4
    /\ \E k \in 1..2 : result.Languages[k].Language = "Python"
                       /\ result.Languages[k].Files = 1

\* the ScanResult of a scan of the one file of a task
ScanOfOneFile(task) ==
    buildSummaries(CollectedInOrder(<<task>>, ZeroResult))

\* the sum of the totals of the single-file scans of tasks_
RECURSIVE SumOfSingleScans(_)
SumOfSingleScans(tasks_) ==
    IF tasks_ = <<>> THEN ZeroResult.Total
    ELSE LET one == ScanOfOneFile(Head(tasks_)).Total
             rest == SumOfSingleScans(Tail(tasks_))
         IN [f \in DOMAIN one |-> one[f] + rest[f]]

\* C15: the total line metrics and the file count of a scan of a directory
\* are the sums of those of the scans of each of its recognised files
C15_DirectoryIsSumOfFiles ==
    (ReturnedResult /\ input.stat = "dir") =>
        result.Total = SumOfSingleScans(TasksOfInput)

\* the directory with N.PY, a/b.go and a.go has been scanned: three files,
\* 1 + 3 + 2 lines
C15_Witness ==
    /\ ReturnedResult /\ input.stat = "dir"
    /\ Len(TasksOfInput) = 3
    /\ result.Total.Files = 3 /\ result.Total.Total = 6
    /\ result.Total = SumOfSingleScans(TasksOfInput)

\* ------------------------------------------------------------------------
\* C16, C17: the registry
\* ------------------------------------------------------------------------

\* C16: the lookup by path goes by the extension of the path, in any case
\* and with its dot, and gives the classifier of the language the table of
\* supported extensions has for it; a path with any other extension, or
\* with none, gives no classifier.
C16_LookupByExtension ==
    lookup.called =>
        LET language == LanguageOfExtension(lookup.ext)
        IN /\ lookup.ok <=> language # <<>>
           /\ lookup.ok => Name(lookup.analyzer) = language
           /\ ~lookup.ok => lookup.analyzer = "none"

\* on windows the path s.go\M.CPP has been looked up and gave the C/C++
\* classifier
C16_Witness ==
    /\ lookup.called /\ lookup.os = "windows"
    /\ lookup.path = <<"s", ".", "g", "o", "\\", "M", ".", "C", "P", "P">>
    /\ lookup.ok /\ lookup.analyzer = "C/C++"

\* s.go/M has been looked up and gave no classifier
C16_NoExtensionReached ==
    /\ lookup.called /\ lookup.os = "unix"
    /\ lookup.path = <<"s", ".", "g", "o", "/", "M">>
    /\ ~lookup.ok

\* every extension of every descriptor of a list of languages
ListedExtensions(list) ==
    UNION { {list[k].Extensions[j] : j \in 1..Len(list[k].Extensions)} :
            k \in 1..Len(list) }

\* C17: the language list of the registry has exactly nine descriptors, in
\* ascending order of their names; the extensions of each descriptor are in
\* ascending order, and no extension is listed under two languages.
C17_LanguageList ==
    listed # <<>> =>
        /\ Len(listed) = 9
        /\ \A k \in 1..(Len(listed) - 1) : StrLess(listed[k].Name, listed[k + 1].Name)
        /\ \A k \in 1..Len(listed) :
             \A j \in 1..(Len(listed[k].Extensions) - 1) :
                StrLess(listed[k].Extensions[j], listed[k].Extensions[j + 1])
        /\ \A k, m \in 1..Len(listed) :
             k # m => ListedExtensions(<<listed[k]>>) \cap ListedExtensions(<<listed[m]>>) = {}

\* the languages have been listed: C/C++ with its eight extensions comes
\* first, TypeScript last
C17_Witness ==
    /\ Len(listed) = 9
    /\ listed[1].Name = <<"C", "/", "C", "+", "+">>
    /\ Len(listed[1].Extensions) = 8
    /\ listed[1].Extensions[1] = <<".", "c">>
    /\ listed[9].Name = <<"T", "y", "p", "e", "S", "c", "r", "i", "p", "t">>
    /\ Cardinality(ListedExtensions(listed)) = 19

\* ------------------------------------------------------------------------
\* C18: the flags of the scan command
\* ------------------------------------------------------------------------

\* ScanPath has not been called and nothing was written
NothingScannedOrWritten ==
    /\ mainPc = "off" /\ workers = 0
    /\ opens = 0 /\ enqueued = <<>> /\ worker = <<>>
    /\ result = ZeroResult
    /\ cmd.files = <<>> /\ cmd.stdout = <<>>

\* RunE has not returned, or has returned one of its two flag errors
AtMostRejected ==
    \/ cmd.pc = "RunE" /\ cmd.err = <<>>
    \/ /\ cmd.pc = "done"
       /\ cmd.err \in { <<"unsupported format, allowed values: table, json">>,
                        <<"workers must be greater than 0">> }

\* C18 (as amended): the scan command rejects a --format value that,
\* trimmed and in lower case, is neither table nor json, and a --workers
\* value <= 0, with an error, before ScanPath is called and without writing
\* to stdout or to a file.
C18_FlagsRejected ==
    (cmd.pc # "off" /\ (format \notin {FormatTable, FormatJSON} \/ cmd.workers <= 0)) =>
        NothingScannedOrWritten /\ AtMostRejected

\* C18 (as stated): the scan command rejects every --format value other
\* than table and json, and a --workers value <= 0, with an error, before
\* ScanPath is called and without writing an output file.
C18_OtherFormatsRejected ==
    (cmd.pc # "off" /\ (cmd.format \notin {FormatTable, FormatJSON} \/ cmd.workers <= 0)) =>
        NothingScannedOrWritten /\ AtMostRejected

\* the command was run with --format json --workers 0 and has returned the
\* error about workers
C18_Witness ==
    /\ cmd.pc = "done" /\ cmd.format = FormatJSON /\ cmd.workers = 0
    /\ cmd.err = <<"workers must be greater than 0">>
    /\ NothingScannedOrWritten

\* the command was run with --format xml and has returned the error about
\* the format
C18_FormatRejectedReached ==
    /\ cmd.pc = "done" /\ cmd.format = <<"x", "m", "l">> /\ cmd.workers = 2
    /\ cmd.err = <<"unsupported format, allowed values: table, json">>
    /\ NothingScannedOrWritten

\* the command was run with --format " JSON" and has written the file
C18_UpperCaseExported ==
    /\ cmd.pc = "done" /\ cmd.format = <<" ", "J", "S", "O", "N">>
    /\ cmd.err = <<>>
    /\ Len(cmd.files) = 1

\* ------------------------------------------------------------------------
\* C19: the line accounting rule
\* ------------------------------------------------------------------------

Bump(flag) == IF flag THEN 1 ELSE 0

\* C19: the accounting rule, applied to one line, adds exactly 1 to total
\* and then either adds 1 to blank, when neither flag is set, or adds 1 to
\* code if hasCode and 1 to comment if hasComment, independently; it never
\* does both, so a line of white space with a flag set is not blank.
C19_LineAccounting ==
    pc = "applied" =>
        /\ metrics.Total = metricsBefore.Total + 1
        /\ metrics.Blank = metricsBefore.Blank + Bump(~hasCode /\ ~hasComment)
        /\ metrics.Code = metricsBefore.Code + Bump(hasCode)
        /\ metrics.Comment = metricsBefore.Comment + Bump(hasComment)

\* the rule has been applied to a line of a tab and a blank with hasComment
\* set: a comment line, not a blank one
C19_Witness ==
    /\ pc = "applied" /\ line = <<"\t", " ">>
    /\ hasComment /\ ~hasCode
    /\ metricsBefore = [Total |-> 1, Code |-> 0, Comment |-> 0, Blank |-> 1]
    /\ metrics = [Total |-> 2, Code |-> 0, Comment |-> 1, Blank |-> 1]

\* the rule has been applied to a line with text and no flag: a blank line
C19_TextWithoutFlagReached ==
    /\ pc = "applied" /\ line = <<"x">>
    /\ ~hasComment /\ ~hasCode
    /\ metrics.Blank = metricsBefore.Blank + 1

\* ------------------------------------------------------------------------
\* C20: the flags a line starts with
\* ------------------------------------------------------------------------

\* the engine of a language is inside a block comment
InBlockCommentState(l, e) ==
    CASE l \in {"Go", "JavaScript", "TypeScript", "Java", "C/C++"} -> e.inBlockComment
      [] l \in {"Rust", "SQL"} -> e.blockCommentDepth > 0
      [] l = "Ruby" -> e.inBeginEndComment
      [] l = "Python" -> FALSE

\* the engine of a language is inside a string, char, raw string, template
\* literal or text block
InStringState(l, e) ==
    CASE l = "Go" -> e.inDoubleQuotedStr \/ e.inSingleQuotedRune \/ e.inRawStringLiteral
      [] l \in {"JavaScript", "TypeScript"} ->
            e.inSingleQuotedStr \/ e.inDoubleQuotedStr \/ e.inTemplateLiteral
      [] l = "Python" -> \/ e.inSingleQuotedStr \/ e.inDoubleQuotedStr
                         \/ e.inTripleSingleStr \/ e.inTripleDoubleStr
      [] l = "Rust" -> e.inDoubleQuotedStr \/ e.inSingleQuotedChr \/ e.inRawString
      [] l = "Ruby" -> e.inSingleQuotedStr \/ e.inDoubleQuotedStr
      [] l = "Java" -> e.inDoubleQuoted \/ e.inSingleQuoted \/ e.inTextBlockStr
      [] l = "C/C++" -> e.inDoubleQuoted \/ e.inSingleQuoted
      [] l = "SQL" -> e.inSingleQuotedStr \/ e.inDoubleQuotedStr

\* the line just classified was counted as comment and not as blank
CountedAsComment ==
    /\ hasComment
    /\ metrics.Comment = metricsBefore.Comment + 1
    /\ metrics.Blank = metricsBefore.Blank

\* the line just classified was counted as code and not as blank
CountedAsCode ==
    /\ hasCode
    /\ metrics.Code = metricsBefore.Code + 1
    /\ metrics.Blank = metricsBefore.Blank

\* C20: for every classifier, a line that starts while the engine is inside
\* a block comment is counted as comment, and a line that starts while the
\* engine is inside a string, char, raw string, template literal or text
\* block is counted as code, whatever the line holds; an empty line or one
\* of white space is then not blank.
C20_SeededByState ==
    pc = "classified" =>
        /\ InBlockCommentState(lang, engBefore) => CountedAsComment
        /\ InStringState(lang, engBefore) => CountedAsCode

\* the Ruby engine is inside a string and the line is handled by the tests
\* that precede the test of the string state: the engine is in a
\* =begin/=end block as well, or the line is a =begin directive
RubyDirectiveFirst ==
    /\ lang = "Ruby"
    /\ \/ engBefore.inBeginEndComment
       \/ isRubyBeginEndDirective(normalizeLine(line), DirBegin)

\* what holds of the claim: the comment half for every classifier, the
\* string half for every line but those of RubyDirectiveFirst
C20_SeededButRubyDirectives ==
    pc = "classified" =>
        /\ InBlockCommentState(lang, engBefore) => CountedAsComment
        /\ (InStringState(lang, engBefore) /\ ~RubyDirectiveFirst) => CountedAsCode

\* a =begin line that starts inside a Ruby string has been counted as
\* comment and not as code
C20_RubyBeginInString ==
    /\ pc = "classified" /\ lang = "Ruby"
    /\ engBefore.inSingleQuotedStr /\ ~engBefore.inBeginEndComment
    /\ normalizeLine(line) = DirBegin
    /\ ~hasCode /\ hasComment
    /\ metrics.Code = metricsBefore.Code

\* an empty line inside a Java text block has been counted as code
C20_Witness ==
    /\ pc = "classified" /\ lang = "Java"
    /\ engBefore.inTextBlockStr
    /\ normalizeLine(line) = <<>>
    /\ CountedAsCode /\ ~hasComment

\* a line of white space inside a Rust block comment has been counted as
\* comment
C20_CommentWitness ==
    /\ pc = "classified" /\ lang = "Rust"
    /\ engBefore.blockCommentDepth > 0
    /\ normalizeLine(line) = <<" ">>
    /\ CountedAsComment /\ ~hasCode

\* ------------------------------------------------------------------------
\* Claims about the lexical rules of the classifiers
\* ------------------------------------------------------------------------

\* C21: for every classifier and every state of its engine, a line with at
\* least one rune that is not white space is reported with hasCode or
\* hasComment, so the rule never counts such a line as blank: blank grows
\* only on a line of white space with neither flag.
C21_NonBlankLineFlagged ==
    pc = "classified" =>
        /\ TrimSpace(currentLine) # <<>> => (hasCode \/ hasComment)
        /\ metrics.Blank # metricsBefore.Blank =>
             /\ TrimSpace(currentLine) = <<>>
             /\ ~hasCode /\ ~hasComment
             /\ metrics.Blank = metricsBefore.Blank + 1

\* the SQL line "-x", whose dash opens no comment, was classified in code
\* state: code, not blank
C21_Witness ==
    /\ pc = "classified" /\ lang = "SQL"
    /\ engBefore = sqlFSMEngine
    /\ currentLine = <<"-", "x">>
    /\ hasCode /\ ~hasComment
    /\ metrics.Blank = metricsBefore.Blank
    /\ metrics.Code = metricsBefore.Code + 1

\* the loop of the last processLine call met, at position k of its trace, a
\* line-comment token in code state
LineCommentMetAt(k) ==
    /\ ~RubyPrelude(lang, engBefore, currentLine)
    /\ ~LineTrace[k].returned
    /\ InCodeState(lang, LineTrace[k].eng)
    /\ StartsAt(currentLine, LineTrace[k].idx, LineCommentToken(lang))

\* C22: for every classifier, when a line-comment token is met in code state
\* the rest of the line is not scanned: processLine returns at the token with
\* hasComment set and hasCode as it was before the token, and the engine is
\* left in the code state it had at the token, whatever follows the token.
C22_LineCommentEndsScan ==
    pc = "classified" =>
        \A k \in 1..Len(LineTrace) :
            LineCommentMetAt(k) =>
                /\ k + 1 = Len(LineTrace)
                /\ LineTrace[k + 1].returned
                /\ eng = LineTrace[k].eng
                /\ InCodeState(lang, eng)
                /\ hasCode = LineTrace[k].hasCode
                /\ hasComment

\* the Go line x//"/* was classified in code state: code and comment, and
\* the quote and the /* after the token have opened nothing
C22_Witness ==
    /\ pc = "classified" /\ lang = "Go"
    /\ engBefore = goFSMEngine
    /\ currentLine = <<"x", "/", "/", "\"", "/", "*">>
    /\ LineCommentMetAt(2)
    /\ eng = goFSMEngine
    /\ hasCode /\ hasComment

\* the SQL line --, met in code state with nothing before it, is a comment
\* and no code
C22_CommentOnlyReached ==
    /\ pc = "classified" /\ lang = "SQL"
    /\ currentLine = <<"-", "-">>
    /\ LineCommentMetAt(1)
    /\ ~hasCode /\ hasComment

\* ------------------------------------------------------------------------
\* C23: escapes in the standard string and char literals
\* ------------------------------------------------------------------------

\* the escape-aware string and char states of a language: the field of the
\* engine and the quote that closes the literal
EscapeAwareStates(l) ==
    CASE l = "Go" -> { [field |-> "inDoubleQuotedStr", quote |-> "\""],
                       [field |-> "inSingleQuotedRune", quote |-> "'"] }
      [] l \in {"JavaScript", "TypeScript", "Python", "Ruby"} ->
                     { [field |-> "inDoubleQuotedStr", quote |-> "\""],
                       [field |-> "inSingleQuotedStr", quote |-> "'"] }
      [] l = "Rust" -> { [field |-> "inDoubleQuotedStr", quote |-> "\""],
                         [field |-> "inSingleQuotedChr", quote |-> "'"] }
      [] l \in {"Java", "C/C++"} ->
                     { [field |-> "inDoubleQuoted", quote |-> "\""],
                       [field |-> "inSingleQuoted", quote |-> "'"] }
      [] OTHER -> {}

\* the engine is in the state of field and in no other
OnlyIn(l, e, field) == e[field] /\ InCodeState(l, [e EXCEPT ![field] = FALSE])

\* one loop iteration met in the literal state s: a backslash with a rune
\* after it consumes both and leaves the state, the quote of the literal
\* closes it, any other rune (a backslash at the end of the line too) is
\* consumed alone; the iteration counts as code
EscapeAwareStep(l, runes, c, d, s) ==
    /\ ~d.returned /\ d.hasCode /\ d.hasComment = c.hasComment
    /\ IF runes[c.idx] = "\\" /\ c.idx < Len(runes)
       THEN d.idx = c.idx + 2 /\ d.eng = c.eng
       ELSE IF runes[c.idx] = s.quote
       THEN /\ d.idx = c.idx + 1
            /\ d.eng = [c.eng EXCEPT ![s.field] = FALSE]
            /\ InCodeState(l, d.eng)
       ELSE d.idx = c.idx + 1 /\ d.eng = c.eng

GoEscapedQuoteLine == <<"\"", "a", "\\", "\"", "b", "\"", "/", "/">>

C23_OpenAcrossLinesReached ==
    /\ pc = "classified" /\ lang = "C/C++"
    /\ engBefore.inDoubleQuoted
    /\ currentLine = <<"\\">>
    /\ eng.inDoubleQuoted
    /\ hasCode /\ ~hasComment

\* ------------------------------------------------------------------------
\* C24: block comments that do not nest
\* ------------------------------------------------------------------------

NonNesting == {"Go", "JavaScript", "TypeScript", "Java", "C/C++"}

\* one loop iteration met inside a block comment: */ ends the comment and
\* gives code state, any other rune, the / of a /* too, is consumed alone
\* and changes nothing; the iteration counts as comment and not as code
FlatCommentStep(l, runes, c, d) ==
    /\ ~d.returned /\ d.hasComment /\ d.hasCode = c.hasCode
    /\ IF StartsAt(runes, c.idx, <<"*", "/">>)
       THEN /\ d.idx = c.idx + 2
            /\ d.eng = [c.eng EXCEPT !.inBlockComment = FALSE]
            /\ InCodeState(l, d.eng)
       ELSE d.idx = c.idx + 1 /\ d.eng = c.eng

\* the rune at the cursor of a configuration is neither white space nor the
\* start of a comment token
PlainRuneAt(l, runes, c) ==
    /\ c.idx <= Len(runes)
    /\ ~IsSpace(runes[c.idx])
    /\ ~CommentTokenAt(l, runes, c.idx)

\* C24: in the Go, JavaScript, TypeScript, Java and C/C++ classifiers block
\* comments do not nest: inside a block comment a /* changes nothing and
\* the first */ gives code state back, so a rune that is neither white
\* space nor a comment token, met after that */ on the same line, makes the
\* line count as code.
C24_BlockCommentsDoNotNest ==
    (lang \in NonNesting /\ pc = "classified") =>
        LET tr == LineTrace
        IN /\ \A k \in 1..(Len(tr) - 1) :
                tr[k].eng.inBlockComment =>
                    FlatCommentStep(lang, currentLine, tr[k], tr[k + 1])
           /\ \A k \in 1..(Len(tr) - 1) :
                (/\ tr[k].eng.inBlockComment
                 /\ ~tr[k + 1].eng.inBlockComment
                 /\ PlainRuneAt(lang, currentLine, tr[k + 1]))
                    => hasCode

FlatCommentLine ==
    <<"x", " ", "/", "*", " ", "a", " ", "/", "*", " ", "b", " ", "*", "/", " ", "y">>

\* the Java line "x /* a /* b */ y" was classified inside a block comment
\* that an earlier line opened: the x and the two /* are comment, the */
\* ends the comment, and the y makes the line code
C24_Witness ==
    /\ pc = "classified" /\ lang = "Java"
    /\ engBefore.inBlockComment
    /\ currentLine = FlatCommentLine
    /\ \E k \in 1..(Len(LineTrace) - 1) :
          /\ LineTrace[k].idx = 13 /\ LineTrace[k].eng.inBlockComment
          /\ ~LineTrace[k].hasCode
          /\ LineTrace[k + 1].idx = 15 /\ LineTrace[k + 1].eng = javaFSMEngine
    /\ eng = javaFSMEngine
    /\ hasCode /\ hasComment

\* ------------------------------------------------------------------------
\* C25: Rust raw strings
\* ------------------------------------------------------------------------

\* runes[i..] is r or br, then n hashes, then a double quote
RawOpenerAt(runes, i, n) ==
    \E p \in {0, 1} :
        /\ i + p + n + 1 <= Len(runes)
        /\ p = 1 => runes[i] = "b"
        /\ runes[i + p] = "r"
        /\ \A j \in 1..n : runes[i + p + j] = "#"
        /\ runes[i + p + n + 1] = "\""

\* the length of the opener r#..#" or br#..#" with n hashes that is at i
RawOpenerLen(runes, i, n) == (IF runes[i] = "b" THEN 1 ELSE 0) + n + 2

\* runes[i] is a double quote with at least n hashes right after it
RawCloserAt(runes, i, n) ==
    /\ runes[i] = "\""
    /\ i + n <= Len(runes)
    /\ \A j \in 1..n : runes[i + j] = "#"

\* one loop iteration met in code state at an opener with n hashes: the raw
\* string is open behind the opener with n recorded
RawOpenStep(runes, c, d, n) ==
    /\ ~d.returned /\ d.hasCode /\ d.hasComment = c.hasComment
    /\ d.idx = c.idx + RawOpenerLen(runes, c.idx, n)
    /\ d.eng = [c.eng EXCEPT !.inRawString = TRUE, !.rawStringHashCnt = n]

\* one loop iteration met inside a raw string: a double quote with the
\* recorded number of hashes behind it closes the raw string and takes the
\* cursor behind the hashes; any other rune is consumed alone and changes
\* nothing, the recorded number included
RawStringStep(runes, c, d) ==
    /\ ~d.returned /\ d.hasCode /\ d.hasComment = c.hasComment
    /\ IF RawCloserAt(runes, c.idx, c.eng.rawStringHashCnt)
       THEN /\ d.idx = c.idx + 1 + c.eng.rawStringHashCnt
            /\ d.eng = [c.eng EXCEPT !.inRawString = FALSE]
            /\ InCodeState("Rust", d.eng)
       ELSE d.idx = c.idx + 1 /\ d.eng = c.eng

\* C25: in the Rust classifier r or br, N hashes and a double quote, met in
\* code state, open a raw string and record N; the raw string stays open,
\* with N unchanged, across lines and through backslashes, comment tokens
\* and double quotes with fewer than N hashes behind them, and closes at a
\* double quote with N hashes right behind it.
C25_RustRawString ==
    (lang = "Rust" /\ pc = "classified") =>
        LET tr == LineTrace
        IN /\ tr[1].eng = engBefore
           /\ eng = tr[Len(tr)].eng
           /\ \A k \in 1..(Len(tr) - 1) :
                /\ InCodeState("Rust", tr[k].eng) =>
                     \A n \in 0..Len(currentLine) :
                        RawOpenerAt(currentLine, tr[k].idx, n)
                            => RawOpenStep(currentLine, tr[k], tr[k + 1], n)
                /\ OnlyIn("Rust", tr[k].eng, "inRawString") =>
                     RawStringStep(currentLine, tr[k], tr[k + 1])
                /\ (~tr[k].eng.inRawString /\ tr[k + 1].eng.inRawString) =>
                     /\ InCodeState("Rust", tr[k].eng)
                     /\ \E n \in 0..Len(currentLine) : RawOpenerAt(currentLine, tr[k].idx, n)

RawCloserLine == <<"\"", "#", "x", "\"", "#", "#", "/", "/">>

\* the Rust line "#x"##// was classified inside a raw string opened with
\* two hashes: the first quote, with one hash, closes nothing, the second
\* closes the raw string, and the // is a comment
C25_Witness ==
    /\ pc = "classified" /\ lang = "Rust"
    /\ engBefore.inRawString /\ engBefore.rawStringHashCnt = 2
    /\ currentLine = RawCloserLine
    /\ \E k \in 1..(Len(LineTrace) - 1) :
          /\ LineTrace[k].idx = 1 /\ LineTrace[k + 1].idx = 2
          /\ LineTrace[k + 1].eng = engBefore
    /\ \E k \in 1..(Len(LineTrace) - 1) :
          /\ LineTrace[k].idx = 4 /\ LineTrace[k].eng.inRawString
          /\ LineTrace[k + 1].idx = 7 /\ ~LineTrace[k + 1].eng.inRawString
    /\ ~eng.inRawString
    /\ hasCode /\ hasComment

\* the Rust line br##"a\ was classified in code state and has left a raw
\* string open with two hashes recorded
C25_OpenedReached ==
    /\ pc = "classified" /\ lang = "Rust"
    /\ engBefore = rustFSMEngine
    /\ currentLine = <<"b", "r", "#", "#", "\"", "a", "\\">>
    /\ eng.inRawString /\ eng.rawStringHashCnt = 2
    /\ hasCode /\ ~hasComment

\* ------------------------------------------------------------------------
\* C26: Rust char literals and lifetimes
\* ------------------------------------------------------------------------

\* the rune two positions after runes[i] is a single quote
QuoteTwoAfter(runes, i) == i + 2 <= Len(runes) /\ runes[i + 2] = "'"

\* the rune right after runes[i] is a backslash and a single quote follows
\* the escaped rune
QuoteAfterEscape(runes, i) ==
    i + 3 <= Len(runes) /\ runes[i + 1] = "\\" /\ runes[i + 3] = "'"

\* the rune right after runes[i] is no backslash
NoBackslashAfter(runes, i) == i + 1 <= Len(runes) /\ runes[i + 1] # "\\"

\* one loop iteration met in code state at a single quote: with looksLikeChar TRUE the
\* quote opens the char-literal state, without it the quote is ordinary code
\* and the engine stays as it was
SingleQuoteStep(c, d, looksLikeChar) ==
    /\ ~d.returned /\ d.hasCode /\ d.hasComment = c.hasComment
    /\ d.idx = c.idx + 1
    /\ d.eng = IF looksLikeChar THEN [c.eng EXCEPT !.inSingleQuotedChr = TRUE] ELSE c.eng

\* every single quote the Rust classifier meets in code state on the line
\* just classified opens the char-literal state exactly when looksLikeChar(runes, i)
EverySingleQuote(looksLikeChar(_, _)) ==
    (lang = "Rust" /\ pc = "classified") =>
        LET tr == LineTrace
        IN \A k \in 1..(Len(tr) - 1) :
              (InCodeState("Rust", tr[k].eng) /\ currentLine[tr[k].idx] = "'")
                  => SingleQuoteStep(tr[k], tr[k + 1], looksLikeChar(currentLine, tr[k].idx))

\* C26 as stated: in the Rust classifier a single quote met in code state
\* opens the char-literal state exactly when the rune two positions after it
\* is a single quote, or the rune right after it is a backslash and a single
\* quote follows the escaped rune; otherwise it is ordinary code.
C26_CharLiteralAsStated ==
    LET looksLikeChar(runes, i) == QuoteTwoAfter(runes, i) \/ QuoteAfterEscape(runes, i)
    IN EverySingleQuote(looksLikeChar)

\* C26 amended: in the Rust classifier a single quote met in code state
\* opens the char-literal state exactly when the rune right after it is no
\* backslash and the rune two positions after it is a single quote, or the
\* rune right after it is a backslash and a single quote follows the escaped
\* rune; otherwise it is ordinary code and the engine stays in code state,
\* so a later comment token on the line is still seen.
C26_CharLiteralOrLifetime ==
    LET looksLikeChar(runes, i) ==
            \/ NoBackslashAfter(runes, i) /\ QuoteTwoAfter(runes, i)
            \/ QuoteAfterEscape(runes, i)
    IN EverySingleQuote(looksLikeChar)

LifetimeLine == <<"f", "<", "'", "a", ">", "(", ")", " ", "/", "/", " ", "c">>

\* the Rust line f<'a>() // c was classified in code state: the quote of the
\* lifetime opened nothing and the comment behind it was counted
C26_Witness ==
    /\ pc = "classified" /\ lang = "Rust"
    /\ engBefore = rustFSMEngine
    /\ currentLine = LifetimeLine
    /\ \E k \in 1..(Len(LineTrace) - 1) :
          /\ LineTrace[k].idx = 3
          /\ LineTrace[k + 1].idx = 4 /\ LineTrace[k + 1].eng = engBefore
    /\ eng = engBefore
    /\ hasCode /\ hasComment

\* the Rust lines '/'// and '\''// were classified in code state: the
\* first quote opened the char-literal state, its last quote closed it, and
\* the comment behind the literal was counted
C26_CharLiteralReached ==
    /\ pc = "classified" /\ lang = "Rust"
    /\ engBefore = rustFSMEngine
    /\ currentLine \in { <<"'", "/", "'", "/", "/">>,
                         <<"'", "\\", "'", "'", "/", "/">> }
    /\ LineTrace[2].eng.inSingleQuotedChr
    /\ eng = engBefore
    /\ hasCode /\ hasComment

\* the Rust line '\' // was classified in code state: the rune two
\* positions after the first quote is a quote, but the rune between them is
\* a backslash; the quote opened nothing and the comment was counted
C26_BackslashBetweenReached ==
    /\ pc = "classified" /\ lang = "Rust"
    /\ engBefore = rustFSMEngine
    /\ currentLine = <<"'", "\\", "'", " ", "/", "/">>
    /\ ~LineTrace[2].eng.inSingleQuotedChr
    /\ eng = engBefore
    /\ hasCode /\ hasComment

\* ------------------------------------------------------------------------
\* C27, C28: Java text blocks
\* ------------------------------------------------------------------------

\* one loop iteration of the Java classifier met inside a text block: three
\* double quotes close the text block and are consumed together; any other
\* rune, a slash or a star included, is consumed alone, changes nothing and
\* counts as code only
TextBlockStep(runes, c, d) ==
    /\ ~d.returned /\ d.hasCode /\ d.hasComment = c.hasComment
    /\ IF StartsAt(runes, c.idx, <<"\"", "\"", "\"">>)
       THEN /\ d.idx = c.idx + 3
            /\ d.eng = [c.eng EXCEPT !.inTextBlockStr = FALSE]
            /\ InCodeState("Java", d.eng)
       ELSE d.idx = c.idx + 1 /\ d.eng = c.eng

\* one loop iteration of the Java classifier met in code state at three
\* double quotes: the text block is open behind them
TextBlockOpenStep(c, d) ==
    /\ ~d.returned /\ d.hasCode /\ d.hasComment = c.hasComment
    /\ d.idx = c.idx + 3
    /\ d.eng = [c.eng EXCEPT !.inTextBlockStr = TRUE]

\* C27: in the Java classifier three double quotes met in code state open a
\* text block that stays open, across lines, until the next three double
\* quotes; every line that is inside the text block at some point is counted
\* as code, and // or /* inside it count as no comment and open no block
\* comment.
C27_JavaTextBlock ==
    (lang = "Java" /\ pc = "classified") =>
        LET tr == LineTrace
        IN /\ tr[1].eng = engBefore
           /\ eng = tr[Len(tr)].eng
           /\ \A k \in 1..(Len(tr) - 1) :
                /\ ( /\ InCodeState("Java", tr[k].eng)
                     /\ StartsAt(currentLine, tr[k].idx, <<"\"", "\"", "\"">>) )
                       => TextBlockOpenStep(tr[k], tr[k + 1])
                /\ OnlyIn("Java", tr[k].eng, "inTextBlockStr")
                       => TextBlockStep(currentLine, tr[k], tr[k + 1])
           /\ (\E k \in 1..Len(tr) : tr[k].eng.inTextBlockStr) => CountedAsCode
           /\ ( /\ OnlyIn("Java", engBefore, "inTextBlockStr")
                /\ \A i \in 1..Len(currentLine) :
                      ~StartsAt(currentLine, i, <<"\"", "\"", "\"">>) )
                  => (eng = engBefore /\ ~hasComment)

TextBlockBody == <<"a", " ", "/", "/", " ", "b", " ", "/", "*", " ", "c">>

\* the Java line a // b /* c was classified inside a text block: it was
\* counted as code and not as comment, and the text block is still open
C27_Witness ==
    /\ pc = "classified" /\ lang = "Java"
    /\ OnlyIn("Java", engBefore, "inTextBlockStr")
    /\ currentLine = TextBlockBody
    /\ eng = engBefore
    /\ CountedAsCode /\ ~hasComment
    /\ metrics.Comment = metricsBefore.Comment

\* the Java line """; // d was classified inside a text block: the quotes
\* closed it and the comment behind them was counted
C27_ClosedReached ==
    /\ pc = "classified" /\ lang = "Java"
    /\ OnlyIn("Java", engBefore, "inTextBlockStr")
    /\ currentLine = <<"\"", "\"", "\"", ";", " ", "/", "/", " ", "d">>
    /\ InCodeState("Java", eng)
    /\ CountedAsCode /\ hasComment

\* an empty Java line was classified inside a text block and counted as code
C27_EmptyLineReached ==
    /\ pc = "classified" /\ lang = "Java"
    /\ OnlyIn("Java", engBefore, "inTextBlockStr")
    /\ currentLine = <<>>
    /\ CountedAsCode

\* C28: inside a Java text block a backslash followed by a character
\* consumes both and changes nothing, so an escaped quote that starts a run
\* of three quotes does not close the text block.
C28_TextBlockEscapes ==
    (lang = "Java" /\ pc = "classified") =>
        LET tr == LineTrace
        IN \A k \in 1..(Len(tr) - 1) :
              ( /\ OnlyIn("Java", tr[k].eng, "inTextBlockStr")
                /\ currentLine[tr[k].idx] = "\\"
                /\ tr[k].idx < Len(currentLine) )
                  => (tr[k + 1].idx = tr[k].idx + 2 /\ tr[k + 1].eng = tr[k].eng)

EscapedTripleQuoteLine == <<"a", "\\", "\"", "\"", "\"", " ", "/", "/">>

\* the Java line a\""" // was classified inside a text block: the quotes
\* behind the backslash closed the text block and the // was counted as a
\* comment
C28_Witness ==
    /\ pc = "classified" /\ lang = "Java"
    /\ OnlyIn("Java", engBefore, "inTextBlockStr")
    /\ currentLine = EscapedTripleQuoteLine
    /\ ~eng.inTextBlockStr
    /\ hasCode /\ hasComment

\* ------------------------------------------------------------------------
\* C29: JavaScript and TypeScript template literals
\* ------------------------------------------------------------------------

TemplateLanguages == {"JavaScript", "TypeScript"}

\* one loop iteration met inside a template literal: a backslash with a rune
\* behind it consumes both and changes nothing; a backtick met otherwise
\* closes the literal; any other rune, a slash or a star included, is
\* consumed alone and changes nothing; all of it counts as code only
TemplateLiteralStep(l, runes, c, d) ==
    /\ ~d.returned /\ d.hasCode /\ d.hasComment = c.hasComment
    /\ IF runes[c.idx] = "\\" /\ c.idx < Len(runes)
       THEN d.idx = c.idx + 2 /\ d.eng = c.eng
       ELSE /\ d.idx = c.idx + 1
            /\ IF runes[c.idx] = BACKTICK
               THEN /\ d.eng = [c.eng EXCEPT !.inTemplateLiteral = FALSE]
                    /\ InCodeState(l, d.eng)
               ELSE d.eng = c.eng

\* C29: in the JavaScript and TypeScript classifiers a backtick met in code
\* state opens a template literal that stays open, across lines, until a
\* backtick that no backslash escapes; // and /* inside it are no comments,
\* and every line that is inside the literal at some point is counted as
\* code.
C29_TemplateLiteral ==
    (lang \in TemplateLanguages /\ pc = "classified") =>
        LET tr == LineTrace
        IN /\ tr[1].eng = engBefore
           /\ eng = tr[Len(tr)].eng
           /\ \A k \in 1..(Len(tr) - 1) :
                /\ (InCodeState(lang, tr[k].eng) /\ currentLine[tr[k].idx] = BACKTICK)
                     => /\ ~tr[k + 1].returned /\ tr[k + 1].hasCode
                        /\ tr[k + 1].hasComment = tr[k].hasComment
                        /\ tr[k + 1].idx = tr[k].idx + 1
                        /\ tr[k + 1].eng = [tr[k].eng EXCEPT !.inTemplateLiteral = TRUE]
                /\ OnlyIn(lang, tr[k].eng, "inTemplateLiteral")
                     => TemplateLiteralStep(lang, currentLine, tr[k], tr[k + 1])
           /\ (\E k \in 1..Len(tr) : tr[k].eng.inTemplateLiteral) => CountedAsCode
           /\ ( /\ OnlyIn(lang, engBefore, "inTemplateLiteral")
                /\ \A i \in 1..Len(currentLine) : currentLine[i] # BACKTICK )
                  => (eng = engBefore /\ ~hasComment)

EscapedBacktickLine == <<"a", "\\", BACKTICK, " ", "/", "/">>

\* the JavaScript line a\` // was classified inside a template literal: the
\* escaped backtick closed nothing, the // was no comment, and the line was
\* counted as code
C29_Witness ==
    /\ pc = "classified" /\ lang = "JavaScript"
    /\ OnlyIn(lang, engBefore, "inTemplateLiteral")
    /\ currentLine = EscapedBacktickLine
    /\ eng = engBefore
    /\ CountedAsCode /\ ~hasComment

\* the same for TypeScript
C29_TypeScriptReached ==
    /\ pc = "classified" /\ lang = "TypeScript"
    /\ OnlyIn(lang, engBefore, "inTemplateLiteral")
    /\ currentLine = EscapedBacktickLine
    /\ eng = engBefore
    /\ CountedAsCode /\ ~hasComment

\* the line `;// was classified inside a template literal in both
\* languages: the backtick closed it and the comment behind was counted
C29_ClosedReached ==
    /\ pc = "classified" /\ lang \in TemplateLanguages
    /\ OnlyIn(lang, engBefore, "inTemplateLiteral")
    /\ currentLine = <<BACKTICK, ";", "/", "/">>
    /\ InCodeState(lang, eng)
    /\ CountedAsCode /\ hasComment

\* ------------------------------------------------------------------------
\* C30: Go raw strings
\* ------------------------------------------------------------------------

\* one loop iteration of the Go classifier met inside a raw string: a
\* backtick closes it, whatever stands before the backtick; any other rune,
\* a backslash, a quote, a slash or a star included, is consumed alone and
\* changes nothing; all of it counts as code only
GoRawStringStep(runes, c, d) ==
    /\ ~d.returned /\ d.hasCode /\ d.hasComment = c.hasComment
    /\ d.idx = c.idx + 1
    /\ IF runes[c.idx] = BACKTICK
       THEN /\ d.eng = [c.eng EXCEPT !.inRawStringLiteral = FALSE]
            /\ InCodeState("Go", d.eng)
       ELSE d.eng = c.eng

\* C30: in the Go classifier a backtick met in code state opens a raw string
\* that closes at the very next backtick and at nothing else, on the same
\* line or on a later one: a backslash before that backtick does not escape
\* it, and quotes and comment tokens inside the raw string are inert.
C30_GoRawString ==
    (lang = "Go" /\ pc = "classified") =>
        LET tr == LineTrace
        IN /\ tr[1].eng = engBefore
           /\ eng = tr[Len(tr)].eng
           /\ \A k \in 1..(Len(tr) - 1) :
                /\ (InCodeState("Go", tr[k].eng) /\ currentLine[tr[k].idx] = BACKTICK)
                     => /\ ~tr[k + 1].returned /\ tr[k + 1].hasCode
                        /\ tr[k + 1].hasComment = tr[k].hasComment
                        /\ tr[k + 1].idx = tr[k].idx + 1
                        /\ tr[k + 1].eng = [tr[k].eng EXCEPT !.inRawStringLiteral = TRUE]
                /\ OnlyIn("Go", tr[k].eng, "inRawStringLiteral")
                     => GoRawStringStep(currentLine, tr[k], tr[k + 1])
           /\ ( /\ OnlyIn("Go", engBefore, "inRawStringLiteral")
                /\ \A i \in 1..Len(currentLine) : currentLine[i] # BACKTICK )
                  => (eng = engBefore /\ ~hasComment)

\* the Go line a\` // was classified inside a raw string: the backtick
\* behind the backslash closed the raw string and the // was counted as a
\* comment
C30_Witness ==
    /\ pc = "classified" /\ lang = "Go"
    /\ OnlyIn("Go", engBefore, "inRawStringLiteral")
    /\ currentLine = EscapedBacktickLine
    /\ InCodeState("Go", eng)
    /\ hasCode /\ hasComment

\* a Go line with a quote and a comment token and no backtick was
\* classified inside a raw string: nothing changed and no comment was seen
C30_InertReached ==
    /\ pc = "classified" /\ lang = "Go"
    /\ OnlyIn("Go", engBefore, "inRawStringLiteral")
    /\ currentLine \in { <<"\"", "/", "/">>, <<"/", "/">>, <<"/", "*">>, <<"\"", "'">> }
    /\ eng = engBefore
    /\ hasCode /\ ~hasComment

\* ------------------------------------------------------------------------
\* C31: SQL string and identifier literals
\* ------------------------------------------------------------------------

\* the literal states of the SQL engine with the quote of each
SqlLiteralStates ==
    { [field |-> "inSingleQuotedStr", quote |-> "'"],
      [field |-> "inDoubleQuotedStr", quote |-> "\""] }

\* one loop iteration of the SQL classifier met inside the literal s: the
\* quote of the literal with the same quote right behind it consumes both
\* and closes nothing; the quote alone closes the literal; any other rune, a
\* backslash, a dash, a slash or a star included, is consumed alone and
\* changes nothing; all of it counts as code only
SqlLiteralStep(runes, c, d, s) ==
    /\ ~d.returned /\ d.hasCode /\ d.hasComment = c.hasComment
    /\ IF runes[c.idx] # s.quote
       THEN d.idx = c.idx + 1 /\ d.eng = c.eng
       ELSE IF c.idx < Len(runes) /\ runes[c.idx + 1] = s.quote
       THEN d.idx = c.idx + 2 /\ d.eng = c.eng
       ELSE /\ d.idx = c.idx + 1
            /\ d.eng = [c.eng EXCEPT ![s.field] = FALSE]
            /\ InCodeState("SQL", d.eng)

\* C31: in the SQL classifier, inside a single-quoted string two single
\* quotes in a row on the same line are an escaped quote that closes nothing
\* (likewise two double quotes inside a double-quoted identifier), a lone
\* quote closes the literal, a backslash escapes nothing, and -- or /*
\* inside the literal are no comments.
C31_SqlDoubledQuotes ==
    (lang = "SQL" /\ pc = "classified") =>
        LET tr == LineTrace
        IN \A k \in 1..(Len(tr) - 1) : \A s \in SqlLiteralStates :
              OnlyIn("SQL", tr[k].eng, s.field)
                  => SqlLiteralStep(currentLine, tr[k], tr[k + 1], s)

\* the SQL line a''--/* was classified inside a single-quoted string: the
\* doubled quote closed nothing and no comment was seen
C31_Witness ==
    /\ pc = "classified" /\ lang = "SQL"
    /\ OnlyIn("SQL", engBefore, "inSingleQuotedStr")
    /\ currentLine = <<"a", "'", "'", "-", "-", "/", "*">>
    /\ eng = engBefore
    /\ hasCode /\ ~hasComment

\* the SQL line a\' -- was classified inside a single-quoted string: the
\* quote behind the backslash closed the string and the -- was a comment
C31_BackslashReached ==
    /\ pc = "classified" /\ lang = "SQL"
    /\ OnlyIn("SQL", engBefore, "inSingleQuotedStr")
    /\ currentLine = <<"a", "\\", "'", " ", "-", "-">>
    /\ InCodeState("SQL", eng)
    /\ hasCode /\ hasComment

\* the SQL line a""--/* was classified inside a double-quoted identifier:
\* the doubled quote closed nothing and no comment was seen
C31_IdentifierReached ==
    /\ pc = "classified" /\ lang = "SQL"
    /\ OnlyIn("SQL", engBefore, "inDoubleQuotedStr")
    /\ currentLine = <<"a", "\"", "\"", "-", "-", "/", "*">>
    /\ eng = engBefore
    /\ hasCode /\ ~hasComment

\* ------------------------------------------------------------------------
\* C32: at most one lexical state at a time
\* ------------------------------------------------------------------------

\* the boolean state flags of the engine of a language
StateFlags(l) ==
    CASE l = "Go" -> {"inBlockComment", "inDoubleQuotedStr", "inSingleQuotedRune", "inRawStringLiteral"}
      [] l \in {"JavaScript", "TypeScript"} ->
            {"inBlockComment", "inSingleQuotedStr", "inDoubleQuotedStr", "inTemplateLiteral"}
      [] l = "Python" -> {"inSingleQuotedStr", "inDoubleQuotedStr", "inTripleSingleStr", "inTripleDoubleStr"}
      [] l = "Rust" -> {"inDoubleQuotedStr", "inSingleQuotedChr", "inRawString"}
      [] l = "Ruby" -> {"inBeginEndComment", "inSingleQuotedStr", "inDoubleQuotedStr"}
      [] l = "Java" -> {"inBlockComment", "inDoubleQuoted", "inSingleQuoted", "inTextBlockStr"}
      [] l = "C/C++" -> {"inBlockComment", "inDoubleQuoted", "inSingleQuoted"}
      [] l = "SQL" -> {"inSingleQuotedStr", "inDoubleQuotedStr"}

\* the lexical states that are active in engine e: the flags that are set,
\* and the block comment of the engines that count its depth
ActiveStates(l, e) ==
    {f \in StateFlags(l) : e[f]}
        \cup (IF l \in {"Rust", "SQL"} /\ e.blockCommentDepth > 0
              THEN {"blockCommentDepth"} ELSE {})

\* at most one lexical state is active in e; for Ruby: the two string flags
\* are not both set
OneStateAtMost(l, e) ==
    IF l = "Ruby"
    THEN ~(e.inSingleQuotedStr /\ e.inDoubleQuotedStr)
    ELSE Cardinality(ActiveStates(l, e)) <= 1

\* C32: in the Go, JavaScript, TypeScript, Python, Rust, Java, C/C++ and SQL
\* engines at most one lexical state is active after any sequence of lines
\* and at every loop iteration within a line, and a state that was not
\* active becomes active only in a loop iteration met in code state; in the
\* Ruby engine the single-quoted and the double-quoted flag are never both
\* set.
C32_OneStateAtMost ==
    /\ OneStateAtMost(lang, eng)
    /\ pc = "classified" =>
         LET tr == LineTrace
         IN /\ \A k \in 1..Len(tr) : OneStateAtMost(lang, tr[k].eng)
            /\ lang # "Ruby" =>
                 \A k \in 1..(Len(tr) - 1) :
                    ActiveStates(lang, tr[k + 1].eng) \ ActiveStates(lang, tr[k].eng) # {}
                        => InCodeState(lang, tr[k].eng)

\* the Go line "' was classified inside a raw string left open by an earlier
\* line: the quotes opened nothing and the raw string is the one state that
\* is active
C32_Witness ==
    /\ pc = "classified" /\ lang = "Go"
    /\ physLines >= 2
    /\ ActiveStates("Go", engBefore) = {"inRawStringLiteral"}
    /\ currentLine = <<"\"", "'">>
    /\ ActiveStates("Go", eng) = {"inRawStringLiteral"}

\* a Ruby line with a double quote was classified inside a single-quoted
\* string: the double-quoted flag stayed clear
C32_RubyReached ==
    /\ pc = "classified" /\ lang = "Ruby"
    /\ engBefore.inSingleQuotedStr /\ ~engBefore.inBeginEndComment
    /\ \E i \in 1..Len(currentLine) : currentLine[i] = "\""
    /\ eng.inSingleQuotedStr /\ ~eng.inDoubleQuotedStr

\* a Rust line was classified at block-comment depth 2 and held a quote:
\* the block comment is the one state that is active
C32_RustDepthReached ==
    /\ pc = "classified" /\ lang = "Rust"
    /\ engBefore.blockCommentDepth = 2
    /\ \E i \in 1..Len(currentLine) : currentLine[i] = "\""
    /\ ActiveStates("Rust", eng) = {"blockCommentDepth"}

\* ------------------------------------------------------------------------
\* C33: end of input inside a string or comment; read errors
\* ------------------------------------------------------------------------

\* the error runWorker records when Analyze fails on the file of its task
ReadErrorOfFile ==
    PathError("read", enqueued[1].absolutePath, "input/output error")

\* C33: for every classifier, Analyze returns without error at the end of
\* the input, with the metrics of all lines, whether or not a string or a
\* comment is still open; it returns an error only after a read error other
\* than end-of-file, and the worker then sends one ScanError for the file
\* and no FileMetrics, while after a return without error (and a close
\* without error) it sends the FileMetrics with the metrics Analyze returned.
C33_EndOfInputIsNoError ==
    /\ pc = "done" => (err = "EOF" /\ metrics.Total = physLines)
    /\ pc = "failed" => err = "ERR"
    /\ worker[1].pc \in {"close", "push"} =>
          /\ worker[1].analyzeErr # <<>> <=> pc = "failed"
          /\ pc = "done" => worker[1].metrics = metrics
    /\ Len(results) <= 1
    /\ (results # <<>> /\ pc = "failed") =>
          /\ results[1].fileMetrics = <<>>
          /\ results[1].scanError =
                <<[Path |-> enqueued[1].displayPath, Error |-> ReadErrorOfFile]>>
    /\ (results # <<>> /\ pc = "done" /\ input.entries[1].fault = "none") =>
          /\ results[1].scanError = <<>>
          /\ results[1].fileMetrics =
                <<[Path |-> enqueued[1].displayPath, Language |-> Name(lang),
                   Metrics |-> metrics]>>

\* the input of a file ended inside a string or a comment after two lines or
\* more: the worker has sent FileMetrics with the metrics of all lines
C33_Witness ==
    /\ pc = "done"
    /\ ~InCodeState(lang, eng)
    /\ physLines >= 2
    /\ results # <<>>
    /\ results[1].scanError = <<>>
    /\ Len(results[1].fileMetrics) = 1
    /\ results[1].fileMetrics[1].Metrics.Total = physLines

\* a read of a file failed after a line had been classified inside a string
\* or a comment: the worker has sent one ScanError
C33_ReadErrorReached ==
    /\ pc = "failed"
    /\ physLines >= 1
    /\ ~InCodeState(lang, eng)
    /\ results # <<>>
    /\ results[1].fileMetrics = <<>>
    /\ Len(results[1].scanError) = 1

\* ------------------------------------------------------------------------
\* C34: CRLF and LF
\* ------------------------------------------------------------------------

\* s ends with "\r\n"
EndsWithCRLF(s) == Len(s) >= 2 /\ s[Len(s) - 1] = "\r" /\ s[Len(s)] = "\n"

\* the text of a chunk that ends with "\n": what stands before the "\r\n"
\* or, without "\r", before the "\n"
TextOf(s) ==
    IF EndsWithCRLF(s) THEN SubSeq(s, 1, Len(s) - 2) ELSE SubSeq(s, 1, Len(s) - 1)

\* C34: of a line that ends with "\n", the classifier sees the text without
\* the "\n" and without a "\r" before it; the flags, the counters and the
\* engine state are those of the same text terminated by "\n" alone.
C34_CRLFAsLF ==
    (pc = "classified" /\ err = "nil") =>
        LET text == TextOf(line)
            withLF == normalizeLine(text \o <<"\n">>)
            r == processLine(lang, engBefore, withLF)
        IN /\ currentLine = text
           /\ withLF = text
           /\ hasCode = r.hasCode /\ hasComment = r.hasComment
           /\ eng = r.eng
           /\ metrics = applyLineClassification(metricsBefore, withLF, r.hasCode, r.hasComment)

\* the Go line x := 1 // c, terminated by "\r\n", was classified as code and
\* comment
C34_Witness ==
    /\ pc = "classified" /\ err = "nil" /\ lang = "Go"
    /\ EndsWithCRLF(line)
    /\ TextOf(line) = <<"x", " ", ":", "=", " ", "1", " ", "/", "/", " ", "c">>
    /\ currentLine = TextOf(line)
    /\ hasCode /\ hasComment
    /\ metrics.Code = metricsBefore.Code + 1
    /\ metrics.Comment = metricsBefore.Comment + 1

\* an empty line terminated by "\r\n" was counted as blank
C34_BlankCRLFReached ==
    /\ pc = "classified" /\ err = "nil"
    /\ line = <<"\r", "\n">>
    /\ InCodeState(lang, engBefore)
    /\ metrics.Blank = metricsBefore.Blank + 1

\* ------------------------------------------------------------------------
\* C35: termination with bounded queues
\* ------------------------------------------------------------------------

\* neither queue holds more than four items per worker
QueuesWithinCap ==
    /\ Len(tasks) <= 4 * workers
    /\ Len(results) <= 4 * workers

\* ScanPath has returned and every goroutine it started has finished
ScanTerminated ==
    /\ mainPc = "returned"
    /\ worker # <<>> =>
          /\ producer.pc = "done"
          /\ \A i \in DOMAIN worker : worker[i].pc = "exited"
          /\ tasksClosed /\ resultsClosed
          /\ tasks = <<>> /\ results = <<>>

\* C35: with W >= 1 workers and queues of capacity 4W, ScanPath terminates
\* for any number of tasks, more than 4W included: the queues never hold
\* more than 4W items, every state in which the scan has not terminated has
\* a step to take, and the producer, every worker and the collector finish.
C35_TerminatesWithBoundedQueues ==
    /\ [](QueuesWithinCap /\ (ScanTerminated \/ ENABLED ScanNext))
    /\ <>ScanTerminated

\* a scan of six files with one worker, two more than both queues hold
\* together with the worker, has terminated with every file reported
C35_Witness ==
    /\ workers = 1
    /\ Len(enqueued) = 6
    /\ ScanTerminated
    /\ retErr = <<>>
    /\ Len(result.Files) = 6

\* the walk waits with a file to enqueue while the task queue is full
C35_TaskQueueFullReached ==
    /\ workers = 1
    /\ Len(tasks) = 4
    /\ producer.pc = "walk" /\ producer.pos <= Len(input.entries)
    /\ walked.kind = "regular"

\* the worker waits with a result while the result queue is full
C35_ResultQueueFullReached ==
    /\ workers = 1
    /\ Len(results) = 4
    /\ worker[1].pc = "push"

\* ------------------------------------------------------------------------
\* C36: the order of the closes
\* ------------------------------------------------------------------------

\* the producer has sent its terminal error: it is in the channel or
\* ScanPath has received it
TerminalErrorSent == walkErrChan # <<>> \/ mainPc = "returned"

\* the collecting loop of ScanPath has ended
CollectLoopEnded == worker # <<>> /\ mainPc \in {"walkErr", "returned"}

\* what holds of the closes in every state
ClosesInOrder ==
    /\ tasksClosed => (producer.pc = "done" /\ TerminalErrorSent)
    /\ resultsClosed =>
          /\ worker # <<>>
          /\ \A i \in DOMAIN worker : worker[i].pc = "exited"
    /\ CollectLoopEnded =>
          /\ resultsClosed /\ results = <<>>
          /\ Len(result.Files) + Len(result.Errors) = Len(enqueued)

\* what holds of every step: a closed queue stays closed and nothing is
\* sent on it
NoSendOnClosed ==
    /\ tasksClosed => (tasksClosed' /\ enqueued' = enqueued /\ Len(tasks') <= Len(tasks))
    /\ resultsClosed => (resultsClosed' /\ Len(results') <= Len(results))

\* C36: in every interleaving the task queue is closed only after the
\* producer has sent its last task and its terminal error, the result queue
\* is closed once and only after all workers have exited, nothing is sent on
\* a closed queue, and the collecting loop ends only after every result has
\* been received.
C36_ClosesInOrder ==
    /\ []ClosesInOrder
    /\ [][NoSendOnClosed]_allVars
    /\ [](resultsClosed => ~ENABLED CloseResults)

\* a scan with two workers has returned after both queues were closed, with
\* the results of three tasks received
C36_Witness ==
    /\ workers = 2
    /\ mainPc = "returned"
    /\ tasksClosed /\ resultsClosed
    /\ Len(enqueued) = 3
    /\ Len(result.Files) + Len(result.Errors) = 3

\* the task queue is closed while tasks are still queued and a worker is
\* at work
C36_ClosedWithTasksLeftReached ==
    /\ tasksClosed /\ ~resultsClosed
    /\ tasks # <<>>
    /\ \E i \in DOMAIN worker : worker[i].pc = "analyze"

\* ------------------------------------------------------------------------
\* C37: an error reported by the walk
\* ------------------------------------------------------------------------

\* the scan is of a directory in which the walk meets an entry with an error
HasWalkError ==
    /\ input.stat = "dir"
    /\ worker # <<>>
    /\ \E k \in 1..Len(input.entries) : input.entries[k].walkErr

\* the first entry, in the order of the walk, that holds an error, or 0
FirstWalkError ==
    IF \E k \in 1..Len(input.entries) : input.entries[k].walkErr
    THEN CHOOSE k \in 1..Len(input.entries) :
            /\ input.entries[k].walkErr
            /\ \A j \in 1..(k - 1) : ~input.entries[j].walkErr
    ELSE 0

\* the error the walk returns at that entry
WalkErrorText ==
    IF FirstWalkError = 0 THEN <<>>
    ELSE PathError("open", EntryPath(input.entries[FirstWalkError]), "permission denied")

\* every worker has exited and the result queue is closed and consumed
DrainedAndConsumed ==
    /\ tasks = <<>>
    /\ \A i \in DOMAIN worker : worker[i].pc = "exited"
    /\ resultsClosed /\ results = <<>>
    /\ Len(result.Files) + Len(result.Errors) = Len(enqueued)

\* what holds in every state of such a scan
WalkErrorIsFatal ==
    HasWalkError =>
        /\ \A n \in 1..Len(enqueued) : \E k \in 1..(FirstWalkError - 1) :
              EntryPath(input.entries[k]) = enqueued[n].absolutePath
        /\ producer.pc \in {"report", "closing", "done"} =>
              (producer.pos = FirstWalkError /\ producer.ret = WalkErrorText)
        /\ mainPc = "returned" =>
              (retErr = WalkErrorText /\ DrainedAndConsumed /\ walkErrChan = <<>>)

\* what holds of every step of such a scan: the terminal error is taken
\* from its channel only when all is drained and consumed
TerminalErrorReadLast ==
    (HasWalkError /\ walkErrChan # <<>> /\ walkErrChan' = <<>>) => DrainedAndConsumed

\* C37: if the walk reports an error for an entry, the walk stops there, no
\* task is enqueued for a later entry, and ScanPath returns that error; it
\* returns only after the workers have drained the tasks that were enqueued
\* and the result queue has been closed and consumed, and it reads the
\* terminal error of the walk after that.
C37_WalkErrorIsFatal ==
    /\ []WalkErrorIsFatal
    /\ [][TerminalErrorReadLast]_allVars
    /\ (HasWalkError ~> (HasWalkError /\ mainPc = "returned" /\ retErr = WalkErrorText))

\* the scan of a directory with a.go, the unreadable directory b, b/x.go
\* and c.go has returned the error of b with the one task of a.go done
C37_Witness ==
    /\ HasWalkError
    /\ Len(input.entries) = 4 /\ FirstWalkError = 2
    /\ mainPc = "returned"
    /\ retErr = WalkErrorText
    /\ Len(enqueued) = 1
    /\ Len(result.Files) = 1
    /\ DrainedAndConsumed

\* ------------------------------------------------------------------------
\* C38: one task at a time, closed before pushed
\* ------------------------------------------------------------------------

\* the workers that hold an open file: os.Open has succeeded and
\* file.Close has not been called yet
HoldingOpenFile == {i \in DOMAIN worker : worker[i].pc \in {"analyze", "close"}}

\* the changes of position of worker i in one step: receive, open,
\* classify, close, push, and back to the head of the loop; from open to
\* push only when os.Open has failed
InWorkerOrder(i) ==
    worker'[i].pc # worker[i].pc =>
        \/ worker[i].pc = "range" /\ worker'[i].pc \in {"open", "exited"}
        \/ worker[i].pc = "open" /\ worker'[i].pc = "analyze" /\ worker'[i].openErr = <<>>
        \/ worker[i].pc = "open" /\ worker'[i].pc = "push" /\ worker'[i].openErr # <<>>
        \/ worker[i].pc = "analyze" /\ worker'[i].pc = "close"
        \/ worker[i].pc = "close" /\ worker'[i].pc = "push"
        \/ worker[i].pc = "push" /\ worker'[i].pc = "range"

\* what holds of every step: every worker moves in that order, a task
\* leaves the queue only to a worker at the head of its loop, and a result
\* enters the queue only from a worker that has closed its file
OneTaskAtATime ==
    (worker # <<>> /\ DOMAIN worker' = DOMAIN worker) =>
        /\ \A i \in DOMAIN worker : InWorkerOrder(i)
        /\ Len(tasks') < Len(tasks) =>
              \E i \in DOMAIN worker : worker[i].pc = "range" /\ worker'[i].pc = "open"
                                         /\ worker'[i].task = Head(tasks)
        /\ Len(results') > Len(results) =>
              \E i \in DOMAIN worker : worker[i].pc = "push" /\ worker'[i].pc = "range"

\* what holds in every state: at most W files are open, every task taken
\* from the queue has been opened once or is about to be, and a worker whose
\* classification failed is closing its file or has closed it
OpenFilesBounded ==
    /\ Cardinality(HoldingOpenFile) <= workers
    /\ opens + Cardinality({i \in DOMAIN worker : worker[i].pc = "open"})
          = Len(enqueued) - Len(tasks)
    /\ \A i \in DOMAIN worker :
          worker[i].analyzeErr # <<>> => worker[i].pc \in {"close", "push"}

\* C38: each worker handles one task at a time in the order open, classify,
\* close, push, before it takes the next task; at most W files are open at
\* any moment, and every file that was opened is closed before its result is
\* pushed, also when the classification fails.
C38_OneTaskAtATime ==
    /\ []OpenFilesBounded
    /\ [][OneTaskAtATime]_allVars

\* with two workers: one is about to push the error of a failed
\* classification, its file closed, while the other holds an open file
C38_Witness ==
    /\ workers = 2
    /\ \E i, j \in DOMAIN worker :
          /\ worker[i].pc = "push" /\ worker[i].analyzeErr # <<>>
          /\ worker[j].pc \in {"analyze", "close"}

\* two workers hold an open file each
C38_TwoOpenReached ==
    /\ workers = 2
    /\ Cardinality(HoldingOpenFile) = 2

\* ------------------------------------------------------------------------
\* C39: a fresh engine for every call of Analyze
\* ------------------------------------------------------------------------

\* worker i has entered Analyze and read nothing yet
JustEntered(i) == worker[i].pc = "loop" /\ worker[i].rest = worker[i].content

\* the engine of a call that has read nothing is a new one, in code state
\* with depth 0, and its counts are zero
StartsFresh(i) ==
    JustEntered(i) =>
        /\ worker[i].eng = newEngine(lang)
        /\ InCodeState(lang, worker[i].eng)
        /\ ("blockCommentDepth" \in DOMAIN worker[i].eng => worker[i].eng.blockCommentDepth = 0)
        /\ worker[i].metrics = ZeroMetrics

\* what a call returns is what its file gives when classified alone
ReturnsOwnMetrics(i) ==
    worker[i].returned => worker[i].metrics = analyze(lang, worker[i].content)

\* C39: every call of Analyze starts from a fresh engine in code state with
\* depth 0, and the state another file left at its end, on the same worker
\* before or on another worker at the same time, has no part in what the
\* call returns.
C39_FreshEnginePerCall ==
    \A i \in DOMAIN worker : StartsFresh(i) /\ ReturnsOwnMetrics(i)

\* a worker whose call before ended outside code state has entered its next
\* call, while another worker is inside a file with its engine outside code
\* state
C39_Witness ==
    \E i, j \in DOMAIN worker :
        /\ i # j
        /\ worker[i].calls = 2 /\ JustEntered(i)
        /\ ~InCodeState(lang, worker[i].left)
        /\ worker[j].pc = "loop" /\ ~InCodeState(lang, worker[j].eng)

\* the file after an unterminated one was returned with a line of code
\* counted, another worker being inside an open comment or string
C39_SecondFileReturned ==
    \E i, j \in DOMAIN worker :
        /\ i # j
        /\ worker[i].calls = 2 /\ worker[i].returned
        /\ ~InCodeState(lang, worker[i].left)
        /\ worker[i].content = <<"x">> /\ worker[i].metrics.Code = 1
        /\ worker[j].pc = "loop" /\ ~InCodeState(lang, worker[j].eng)

\* ------------------------------------------------------------------------
\* C40: the JavaScript and the TypeScript classifier
\* ------------------------------------------------------------------------

\* the other one of the two classifiers
Counterpart(l) == IF l = "JavaScript" THEN "TypeScript" ELSE "JavaScript"

\* the line just classified, given to the other classifier in the same
\* engine state: the same configuration after every rune, the same flags and
\* engine at the end of the line, the same counts after it
SameAsCounterpart ==
    LET o == Counterpart(lang)
        r == processLine(o, engBefore, currentLine)
    IN /\ TraceOf(o, engBefore, currentLine) = LineTrace
       /\ r.hasCode = hasCode /\ r.hasComment = hasComment
       /\ r.eng = eng
       /\ applyLineClassification(metricsBefore, currentLine, r.hasCode, r.hasComment)
             = metrics

\* C40: the JavaScript and the TypeScript classifier start from the same
\* engine state and, from the same state on the same line, report the same
\* has_code and has_comment flags, end in the same engine state and add the
\* same counts; fed the same input line by line they therefore return the
\* same LineMetrics.
C40_SameAsTypeScript ==
    /\ newEngine("JavaScript") = newEngine("TypeScript")
    /\ (lang \in {"JavaScript", "TypeScript"} /\ pc = "classified") => SameAsCounterpart

\* a TypeScript line that starts inside a template literal, closes it and
\* ends in a comment
C40_Witness ==
    /\ lang = "TypeScript" /\ pc = "classified"
    /\ engBefore.inTemplateLiteral /\ ~eng.inTemplateLiteral
    /\ hasCode /\ hasComment

\* a JavaScript line with an escaped backtick inside a template literal
\* that stays open
C40_JavaScriptReached ==
    /\ lang = "JavaScript" /\ pc = "classified"
    /\ engBefore.inTemplateLiteral /\ eng.inTemplateLiteral
    /\ Len(currentLine) >= 2 /\ currentLine[1] = "\\" /\ currentLine[2] = BACKTICK

====
